---- MODULE Spec2Model ----
(***************************************************************************)
(* A model of the GraphAI front-end: the SSE client step7LLMGenerateStream *)
(* (api/intelligentChat.js), the views that consume it (the LLM-generate   *)
(* tab and the knowledge-base chat), the smart-retrieval tab, the Graphiti *)
(* and Cognee build tabs and the knowledge-base CRUD handlers.             *)
(*                                                                         *)
(* One Vue component is mounted per behaviour (the variable view); every   *)
(* action is one run-to-completion step of the browser's event loop: a     *)
(* click handler up to its first await, the continuation of an await, a    *)
(* timer callback, or a promise callback of the stream reader.             *)
(***************************************************************************)
EXTENDS Integers, Sequences, FiniteSets, TLC

\* ------------------------------------------------------------------ bounds
MaxEvents == 2      \* content blocks in one response body

\* Two activations of a handler: enough for one stream to overlap another.
Streams == {1, 2}

\* ------------------------------------------------------------------- text
\* A string is a sequence of characters.
T1 == <<"a", "b", "c", "d">>
T2 == <<"e">>
Texts == {T1, T2}

Min(a, b) == IF a < b THEN a ELSE b

\* String.prototype.substring(0, n)
Substring0(t, n) == SubSeq(t, 1, Min(n, Len(t)))

RECURSIVE TrimLeft(_)
TrimLeft(t) == IF t # <<>> /\ Head(t) = " " THEN TrimLeft(Tail(t)) ELSE t

RECURSIVE TrimRight(_)
TrimRight(t) ==
  IF t # <<>> /\ t[Len(t)] = " " THEN TrimRight(SubSeq(t, 1, Len(t) - 1)) ELSE t

\* String.prototype.trim()
Trim(t) == TrimRight(TrimLeft(t))

\* ------------------------------------------------- the stream's wire format
\* An event is the JSON object of one `data: ` block. A field that is absent
\* and a field that is falsy behave alike in the reader, so error = "" stands
\* for both, done = FALSE likewise, content = <<>> likewise.
NoEv == [error |-> "", done |-> FALSE, statistics |-> FALSE, content |-> <<>>]
AllEvents ==
  [error : {"", "boom"}, done : BOOLEAN, statistics : BOOLEAN, content : Texts \cup {<<>>}]

EvContent(t) == [NoEv EXCEPT !.content = t]
EvStats == [NoEv EXCEPT !.statistics = TRUE]
EvDone == [NoEv EXCEPT !.done = TRUE]
EvError == [NoEv EXCEPT !.error = "boom"]

\* The body is a sequence of tokens: a newline, the six characters `data: `,
\* the text of a JSON object, or text that is neither.
Nl == [k |-> "n", ev |-> NoEv]
Pfx == [k |-> "D", ev |-> NoEv]
Junk == [k |-> "x", ev |-> NoEv]
Json(e) == [k |-> "j", ev |-> e]

\* The blocks a server can send: an event, a comment line, a data line whose
\* payload is not JSON.
DataBlock(e) == <<Pfx, Json(e)>>
CommentBlock == <<Junk>>
BadJsonBlock == <<Pfx, Junk>>

RECURSIVE Flatten(_)
Flatten(blocks) ==
  IF blocks = <<>> THEN <<>> ELSE Head(blocks) \o <<Nl, Nl>> \o Flatten(Tail(blocks))

\* A body: blocks each followed by a blank line, and possibly a last block
\* the server did not terminate.
BodyOf(blocks, tail) == Flatten(blocks) \o tail

SeqsUpTo(S, n) == UNION {[1..m -> S] : m \in 0..n}

\* ------------------------------------------------------------- the reader
\* buffer.split('\n\n'): the parts between the blank-line separators, found
\* left to right without overlap; the last part is the unterminated tail.
RECURSIVE SplitFrom(_, _)
SplitFrom(t, cur) ==
  IF t = <<>> THEN <<cur>>
  ELSE IF Len(t) >= 2 /\ t[1].k = "n" /\ t[2].k = "n"
       THEN <<cur>> \o SplitFrom(SubSeq(t, 3, Len(t)), <<>>)
       ELSE SplitFrom(Tail(t), Append(cur, Head(t)))

Split(t) == SplitFrom(t, <<>>)

\* line.startsWith('data: ')
StartsWithData(line) == line # <<>> /\ line[1].k = "D"

\* JSON.parse(line.slice(6)) succeeds: the rest is one JSON text, white space
\* (single newlines) around it allowed.
ParseOk(line) ==
  LET q == SelectSeq(Tail(line), LAMBDA x : x.k # "n")
  IN Len(q) = 1 /\ q[1].k = "j"

Payload(line) == SelectSeq(Tail(line), LAMBDA x : x.k # "n")[1].ev

\* A callback invocation.
CallChunk(t) == [cb |-> "chunk", text |-> t, msg |-> ""]
CallStats == [cb |-> "stats", text |-> <<>>, msg |-> ""]
CallDone == [cb |-> "done", text |-> <<>>, msg |-> ""]
CallError(m) == [cb |-> "error", text |-> <<>>, msg |-> m]

LineStopsOnDoneOnly(line) ==
  /\ StartsWithData(line)
  /\ ParseOk(line)
  /\ Payload(line).done

\* Does the handling of this line end the loop and the reading (`return`)?
LineStops(line) ==
  /\ StartsWithData(line)
  /\ ParseOk(line)
  /\ (Payload(line).error # "" \/ Payload(line).done)

LineCallsDoneFirst(line) ==
  IF ~StartsWithData(line) THEN <<>>
  ELSE IF ~ParseOk(line) THEN <<>>
  ELSE LET data == Payload(line) IN
       IF data.done THEN <<CallDone>>
       ELSE IF data.error # "" THEN <<CallError(data.error)>>
       ELSE (IF data.statistics THEN <<CallStats>> ELSE <<>>)
            \o (IF data.content # <<>> THEN <<CallChunk(data.content)>> ELSE <<>>)

\* The callbacks one line causes, in order (the body of the for loop).
LineCalls(line) ==
  IF ~StartsWithData(line) THEN <<>>
  ELSE IF ~ParseOk(line) THEN <<>>
  ELSE LET data == Payload(line) IN
       IF data.error # "" THEN <<CallError(data.error)>>
       ELSE IF data.done THEN <<CallDone>>
       ELSE (IF data.statistics THEN <<CallStats>> ELSE <<>>)
            \o (IF data.content # <<>> THEN <<CallChunk(data.content)>> ELSE <<>>)

RECURSIVE ProcessLinesToEnd(_)
ProcessLinesToEnd(lines) ==
  IF lines = <<>> THEN [calls |-> <<>>, stopped |-> FALSE]
  ELSE LET rest == ProcessLinesToEnd(Tail(lines))
       IN [calls |-> LineCalls(Head(lines)) \o rest.calls,
           stopped |-> LineStops(Head(lines)) \/ rest.stopped]

\* The for loop over the complete lines of one read.
RECURSIVE ProcessLines(_)
ProcessLines(lines) ==
  IF lines = <<>> THEN [calls |-> <<>>, stopped |-> FALSE]
  ELSE IF LineStops(Head(lines))
       THEN [calls |-> LineCalls(Head(lines)), stopped |-> TRUE]
       ELSE LET rest == ProcessLines(Tail(lines))
            IN [calls |-> LineCalls(Head(lines)) \o rest.calls, stopped |-> rest.stopped]

\* The error message of a non-OK response: the detail field, else the
\* serialised body; when the body is not JSON, response.text() is called on
\* the body response.json() has consumed, and its TypeError is what reaches
\* the outer catch.
HttpErrorDetail(kind) ==
  CASE kind = "detail" -> "detail"
    [] kind = "nodetail" -> "serialised"
    [] OTHER -> "TypeError"

HttpErrorKinds == {"detail", "nodetail", "notjson"}

\* ------------------------------------------------------------------ state
VARIABLES
  view,                      \* the mounted component
  out,                       \* what the last step showed: toasts and console lines
  issued,                    \* requests issued since the last user action
  retrievalReq,              \* the smart-retrieval request the last step sent, if any
  \* step7LLMGenerateStream, one activation per stream
  rpc,                       \* unused, fetching, reading; returned, ended, failed
  net,                       \* the body the server sends
  got,                       \* how much of it reader.read() has handed over
  buffer,                    \* the reader's buffer
  calls,                     \* the callbacks invoked so far
  \* the closure of the callbacks of one stream
  pendingText, displayedLength, typewriterTimer,
  \* refs of the LLM-generate tab (executing, executionStatus and
  \* executionResult are refs of the smart-retrieval tab too)
  userQuery, retrievalScope, selectedDocumentGroupIds, executing, executionStatus,
  executionResult, retrievalResult, streamingContent, isStreaming,
  streamingAbortController, llmPc,
  \* refs of the knowledge-base chat
  chatInput, selectedKB, kbDocumentGroupIds, chatLoading, chatMessages,
  assistantMessage, chatPc,
  \* refs of the smart-retrieval tab
  queryText, searchMode, selectedGroupIds, tabPc,
  \* the awaited requests of the Graphiti tab, the Cognee tab and the
  \* knowledge-base page
  tasks,                     \* requests awaited now
  sent,                      \* the requests the last step sent
  log,                       \* the requests sent since the last user action
  twice,                     \* those of log sent more than once
  rejected,                  \* the request whose rejection the last step handled, or ""
  dialog,                    \* the Modal.confirm on screen, or none
  choice,                    \* how the last Modal.confirm was left: ok, cancel
  \* refs of the Graphiti tab and of the Cognee tab
  selectedDocumentId, selectedDocumentHasGraph, deletingGraph, skipConfirmation,
  \* the knowledge-base page and the knowledge bases the server holds
  server, route, privateKBs, selectedKbId, createModalVisible, editModalVisible,
  createForm, editForm, actions,
  \* the retrieval settings of the chat, and its agent mode
  retrievalSettings, agentRetrievalSettings, agentRequest, currentStage,
  currentStageText, agentEvents,
  \* convertV4ResultsToLLMFormat: its arguments and what it returned
  retrievalResultV4, maxResults, llmFormatResults,
  \* the document list of the selected knowledge base
  kbDocuments, searchKeyword, documentsPagination, documents, documentsLoading,
  allCompletedDocumentIds, page,
  \* history: the knowledge base that was selected and shown when its edit
  \* dialog was last confirmed, 0 if there is none
  editedKbId

streamVars == <<rpc, net, got, buffer, calls>>
closureVars == <<pendingText, displayedLength, typewriterTimer>>
llmInputVars == <<userQuery, retrievalScope, selectedDocumentGroupIds>>
llmVars == <<executing, executionStatus, executionResult, retrievalResult,
             streamingContent, isStreaming, streamingAbortController, llmPc>>
chatInputVars == <<chatInput, selectedKB, kbDocumentGroupIds>>
chatVars == <<chatLoading, chatMessages, assistantMessage, chatPc>>
tabInputVars == <<queryText, searchMode, selectedGroupIds>>
tabVars == <<tabPc>>
ioVars == <<tasks, sent, log, twice>>
dialogVars == <<dialog, choice>>
graphVars == <<selectedDocumentId, selectedDocumentHasGraph, deletingGraph,
               skipConfirmation>>
kbVars == <<server, route, privateKBs, selectedKbId, createModalVisible,
            editModalVisible, createForm, editForm, actions>>
settingsVars == <<retrievalSettings, agentRetrievalSettings>>
agentVars == <<agentRequest, currentStage, currentStageText, agentEvents>>
convertVars == <<retrievalResultV4, maxResults, llmFormatResults>>
docsVars == <<kbDocuments, searchKeyword, documentsPagination, documents,
              documentsLoading, allCompletedDocumentIds, page>>
historyVars == <<editedKbId>>
auxVars == <<settingsVars, agentVars, convertVars, docsVars, historyVars>>
crudVars == <<ioVars, dialogVars, graphVars, kbVars, auxVars>>

vars == <<view, out, issued, retrievalReq, rejected, streamVars, closureVars,
          llmInputVars, llmVars, chatInputVars, chatVars, tabInputVars, tabVars, crudVars>>

\* Notifications.
MsgError == "message.error"
MsgWarning == "message.warning"
MsgSuccess == "message.success"
MsgInfo == "message.info"
ConsoleError == "console.error"

NoneIssued == [smartRetrieval |-> 0, stream |-> 0]

\* The parameters of a smart-retrieval request; NoReq before the first one.
NoGroupIds == [present |-> FALSE, ids |-> {}]
NoReq == [sent |-> FALSE, from |-> "", query |-> <<>>, top_k |-> 0, min_score |-> 0,
          group_ids |-> NoGroupIds, enable_refine |-> FALSE]

Queries == {<<>>, <<" ">>, <<" ", "q">>}
Selections == {{}, {"d1"}}

\* The stream is over: the loop returned on an event, the reader was done,
\* or a catch ran.
Closed(s) == rpc[s] \in {"returned", "ended", "failed"}

\* Nothing has been started yet: the user is still filling the form.
Quiet == \A s \in Streams : rpc[s] = "unused"

\* ------------------------------------------------ the LLM-generate tab
NullResult == [isNull |-> TRUE, generated_document |-> <<>>, statistics |-> FALSE]
FreshResult == [isNull |-> FALSE, generated_document |-> <<>>, statistics |-> FALSE]
NoRetrieval == [isNull |-> TRUE, success |-> FALSE]

LlmTopK == 50
LlmMinScore == 70

\* The refs an LLM-tab callback of stream s reads and writes.
LlmSt(s) ==
  [pendingText |-> pendingText[s], displayedLength |-> displayedLength[s],
   typewriterTimer |-> typewriterTimer[s], streamingContent |-> streamingContent,
   isStreaming |-> isStreaming, executionStatus |-> executionStatus,
   executionResult |-> executionResult, out |-> {}]

\* onChunk: statistics are merged into executionResult when there is one;
\* a string is appended to pendingText.
LlmOnChunk(st, c) ==
  IF c.cb = "stats"
  THEN IF st.executionResult.isNull THEN st
       ELSE [st EXCEPT !.executionResult.statistics = TRUE]
  ELSE [st EXCEPT !.pendingText = @ \o c.text]

\* onDone
LlmOnDone(st) ==
  [st EXCEPT !.isStreaming = FALSE,
             !.executionStatus = "",
             !.typewriterTimer = "null",
             !.streamingContent = st.pendingText,
             !.displayedLength = Len(st.pendingText),
             !.executionResult = IF @.isNull THEN @
                                 ELSE [@ EXCEPT !.generated_document = st.pendingText],
             !.out = @ \cup {MsgSuccess}]

\* onError
LlmOnError(st) ==
  [st EXCEPT !.isStreaming = FALSE,
             !.executionStatus = "",
             !.typewriterTimer = "null",
             !.executionResult = NullResult,
             !.out = @ \cup {ConsoleError, MsgError}]

LlmCall(st, c) ==
  CASE c.cb = "done" -> LlmOnDone(st)
    [] c.cb = "error" -> LlmOnError(st)
    [] OTHER -> LlmOnChunk(st, c)

RECURSIVE LlmFold(_, _)
LlmFold(st, cs) == IF cs = <<>> THEN st ELSE LlmFold(LlmCall(st, Head(cs)), Tail(cs))

\* The callbacks cs of stream s run, in order, in one step.
LlmDeliver(s, cs) ==
  LET r == LlmFold(LlmSt(s), cs) IN
  /\ pendingText' = [pendingText EXCEPT ![s] = r.pendingText]
  /\ displayedLength' = [displayedLength EXCEPT ![s] = r.displayedLength]
  /\ typewriterTimer' = [typewriterTimer EXCEPT ![s] = r.typewriterTimer]
  /\ streamingContent' = r.streamingContent
  /\ isStreaming' = r.isStreaming
  /\ executionStatus' = r.executionStatus
  /\ executionResult' = r.executionResult
  /\ out' = r.out
  /\ UNCHANGED <<executing, retrievalResult, streamingAbortController, llmPc, chatVars>>

\* The user fills the form.
LlmEdit ==
  /\ view = "llm"
  /\ ~executing
  /\ Quiet
  /\ \E q \in Queries, sc \in {"all", "specified"}, sel \in Selections :
       /\ <<q, sc, sel>> # <<userQuery, retrievalScope, selectedDocumentGroupIds>>
       /\ userQuery' = q
       /\ retrievalScope' = sc
       /\ selectedDocumentGroupIds' = sel
  /\ out' = {}
  /\ retrievalReq' = NoReq
  /\ rejected' = ""
  /\ UNCHANGED <<view, issued, streamVars, closureVars, llmVars,
                 chatInputVars, chatVars, tabInputVars, tabVars, crudVars>>

FirstUnused ==
  CHOOSE s \in Streams : rpc[s] = "unused" /\ \A t \in Streams : t < s => rpc[t] # "unused"

\* The parameters handleExecute builds.
LlmRetrievalParams ==
  [sent |-> TRUE, from |-> "llm", query |-> userQuery, top_k |-> LlmTopK,
   min_score |-> LlmMinScore,
   group_ids |-> IF retrievalScope = "specified"
                 THEN [present |-> TRUE, ids |-> selectedDocumentGroupIds]
                 ELSE NoGroupIds,
   enable_refine |-> TRUE]

\* The two early returns of handleExecute.
LlmRefuses ==
  \/ Trim(userQuery) = <<>>
  \/ retrievalScope = "specified" /\ selectedDocumentGroupIds = {}

\* handleExecute up to `await smartRetrieval(...)`. The button is disabled
\* and loading while executing.
LlmHandleExecute ==
  /\ view = "llm"
  /\ ~executing
  /\ \E s \in Streams : rpc[s] = "unused"
  /\ IF LlmRefuses
     THEN /\ out' = {MsgWarning}
          /\ retrievalReq' = NoReq
          /\ rejected' = ""
          /\ UNCHANGED <<issued, llmVars>>
     ELSE /\ executing' = TRUE
          /\ executionStatus' = "retrieving"
          /\ executionResult' = NullResult
          /\ retrievalResult' = NoRetrieval
          /\ retrievalReq' = LlmRetrievalParams
          /\ rejected' = ""
          /\ issued' = [issued EXCEPT ![FirstUnused] = [NoneIssued EXCEPT !.smartRetrieval = 1]]
          /\ llmPc' = "retrieval"
          /\ out' = {}
          /\ UNCHANGED <<streamingContent, isStreaming, streamingAbortController>>
  /\ UNCHANGED <<view, streamVars, closureVars, llmInputVars, chatInputVars, chatVars,
                 tabInputVars, tabVars, crudVars>>

\* The catch and finally blocks of handleExecute.
LlmExecuteFails ==
  /\ out' = {ConsoleError, MsgError}
  /\ rejected' \in {"smartRetrieval", ""}
  /\ executionResult' = NullResult
  /\ retrievalResult' = NoRetrieval
  /\ executing' = FALSE
  /\ executionStatus' = ""
  /\ llmPc' = "idle"
  /\ UNCHANGED <<issued, streamVars, closureVars, streamingContent, isStreaming,
                 streamingAbortController>>

LlmStartStreamAwaited(found) ==
  LET s == FirstUnused IN
  /\ retrievalResult' = [isNull |-> FALSE, success |-> TRUE]
  /\ out' = {IF found THEN MsgSuccess ELSE MsgWarning}
  /\ rejected' = ""
  /\ streamingContent' = <<>>
  /\ isStreaming' = TRUE
  /\ executionResult' = FreshResult
  /\ streamingAbortController' = "controller"
  /\ pendingText' = [pendingText EXCEPT ![s] = <<>>]
  /\ displayedLength' = [displayedLength EXCEPT ![s] = 0]
  /\ typewriterTimer' = [typewriterTimer EXCEPT ![s] = "pending"]
  /\ rpc' = [rpc EXCEPT ![s] = "fetching"]
  /\ issued' = [issued EXCEPT ![s].stream = @ + 1]
  /\ UNCHANGED <<executing, executionStatus>>
  /\ llmPc' = "idle"
  /\ UNCHANGED <<net, got, buffer, calls>>

\* handleExecute from the answer of smartRetrieval to its end: the stream is
\* started, not awaited, and the finally block runs at once.
LlmStartStream(found) ==
  LET s == FirstUnused IN
  /\ retrievalResult' = [isNull |-> FALSE, success |-> TRUE]
  /\ out' = {IF found THEN MsgSuccess ELSE MsgWarning}
  /\ rejected' = ""
  /\ streamingContent' = <<>>
  /\ isStreaming' = TRUE
  /\ executionResult' = FreshResult
  /\ streamingAbortController' = "controller"
  /\ pendingText' = [pendingText EXCEPT ![s] = <<>>]
  /\ displayedLength' = [displayedLength EXCEPT ![s] = 0]
  \* typewriterEffect(): nothing to show yet, isStreaming: the timer is armed
  /\ typewriterTimer' = [typewriterTimer EXCEPT ![s] = "pending"]
  /\ rpc' = [rpc EXCEPT ![s] = "fetching"]
  /\ issued' = [issued EXCEPT ![s].stream = @ + 1]
  /\ executing' = FALSE
  /\ executionStatus' = ""
  /\ llmPc' = "idle"
  /\ UNCHANGED <<net, got, buffer, calls>>

LlmRetrievalSettles ==
  /\ view = "llm"
  /\ llmPc = "retrieval"
  /\ \/ LlmExecuteFails   \* the promise is rejected, or success is false and an Error is thrown
     \/ \E found \in BOOLEAN : LlmStartStream(found)
  /\ retrievalReq' = NoReq
  /\ UNCHANGED <<view, llmInputVars, chatInputVars, chatVars,
                 tabInputVars, tabVars, crudVars>>

\* handleClear. abort() reaches no request: fetch is called without the
\* controller's signal.
LlmHandleClear ==
  /\ view = "llm"
  /\ ~executing
  /\ streamingAbortController' = "null"
  /\ executionResult' = NullResult
  /\ retrievalResult' = NoRetrieval
  /\ streamingContent' = <<>>
  /\ isStreaming' = FALSE
  /\ userQuery' = <<>>
  /\ selectedDocumentGroupIds' = {}
  /\ out' = {MsgSuccess}
  /\ retrievalReq' = NoReq
  /\ rejected' = ""
  /\ UNCHANGED <<view, issued, streamVars, closureVars, retrievalScope,
                 executing, executionStatus, llmPc, chatInputVars, chatVars,
                 tabInputVars, tabVars, crudVars>>

\* typewriterEffect, run by its timer.
LlmTypewriter(s) ==
  /\ view = "llm"
  /\ typewriterTimer[s] = "pending"
  /\ IF displayedLength[s] < Len(pendingText[s])
     THEN LET chunkSize == Min(3, Len(pendingText[s]) - displayedLength[s]) IN
          /\ streamingContent' = Substring0(pendingText[s], displayedLength[s] + chunkSize)
          /\ displayedLength' = [displayedLength EXCEPT ![s] = @ + chunkSize]
          /\ UNCHANGED typewriterTimer
     ELSE IF isStreaming
     THEN UNCHANGED <<streamingContent, displayedLength, typewriterTimer>>
     ELSE /\ typewriterTimer' = [typewriterTimer EXCEPT ![s] = "dead"]
          /\ UNCHANGED <<streamingContent, displayedLength>>
  /\ out' = {}
  /\ retrievalReq' = NoReq
  /\ rejected' = ""
  /\ UNCHANGED <<view, issued, streamVars, pendingText, llmInputVars,
                 executing, executionStatus, executionResult, retrievalResult,
                 isStreaming, streamingAbortController, llmPc, chatInputVars, chatVars,
                 tabInputVars, tabVars, crudVars>>

\* ------------------------------------------- the knowledge-base chat
NoKB == [isNull |-> TRUE, id |-> 0, name |-> <<>>]
NamedKB(i, name) == [isNull |-> FALSE, id |-> i, name |-> name]
KB(i) == NamedKB(i, <<"n">>)

NoMessage == [content |-> <<>>, streamingContent |-> <<>>, isStreaming |-> FALSE,
              llmStatistics |-> FALSE]
NewMessage == [NoMessage EXCEPT !.isStreaming = TRUE]

\* '抱歉，生成失败：' + error.message
FailText(m) == <<"generation failed: ", m>>

ChatTopK == 20
ChatMinScore == 60

\* a || b on numbers
OrDefault(a, b) == IF a = 0 THEN b ELSE a

\* The refs a chat callback of stream s reads and writes.
ChatSt(s) ==
  [pendingText |-> pendingText[s], displayedLength |-> displayedLength[s],
   typewriterTimer |-> typewriterTimer[s], assistantMessage |-> assistantMessage[s],
   chatLoading |-> chatLoading, out |-> {}]

ChatOnChunkPrepends(st, c) ==
  IF c.cb = "stats"
  THEN [st EXCEPT !.assistantMessage.llmStatistics = TRUE]
  ELSE [st EXCEPT !.pendingText = c.text \o @]

\* onChunk
ChatOnChunk(st, c) ==
  IF c.cb = "stats"
  THEN [st EXCEPT !.assistantMessage.llmStatistics = TRUE]
  ELSE [st EXCEPT !.pendingText = @ \o c.text]

\* clearTimeout(typewriterTimer): the variable keeps the id of a dead timer
Cleared(t) == IF t = "pending" THEN "dead" ELSE t

\* onDone
ChatOnDone(st) ==
  [st EXCEPT !.assistantMessage.isStreaming = FALSE,
             !.typewriterTimer = Cleared(@),
             !.assistantMessage.streamingContent = st.pendingText,
             !.assistantMessage.content = st.pendingText,
             !.chatLoading = FALSE]

\* onError
ChatOnError(st, c) ==
  [st EXCEPT !.assistantMessage.isStreaming = FALSE,
             !.typewriterTimer = Cleared(@),
             !.out = @ \cup {ConsoleError, MsgError},
             !.assistantMessage.content = FailText(c.msg),
             !.assistantMessage.streamingContent = <<>>,
             !.chatLoading = FALSE]

ChatCall(st, c) ==
  CASE c.cb = "done" -> ChatOnDone(st)
    [] c.cb = "error" -> ChatOnError(st, c)
    [] OTHER -> ChatOnChunk(st, c)

RECURSIVE ChatFold(_, _)
ChatFold(st, cs) == IF cs = <<>> THEN st ELSE ChatFold(ChatCall(st, Head(cs)), Tail(cs))

ChatDeliver(s, cs) ==
  LET r == ChatFold(ChatSt(s), cs) IN
  /\ pendingText' = [pendingText EXCEPT ![s] = r.pendingText]
  /\ displayedLength' = [displayedLength EXCEPT ![s] = r.displayedLength]
  /\ typewriterTimer' = [typewriterTimer EXCEPT ![s] = r.typewriterTimer]
  /\ assistantMessage' = [assistantMessage EXCEPT ![s] = r.assistantMessage]
  /\ chatLoading' = r.chatLoading
  /\ out' = r.out
  /\ UNCHANGED <<chatMessages, chatPc, llmVars>>

\* The state the chat is used in: the question typed, the knowledge base
\* selected, its processed documents.
ChatEdit ==
  /\ view \in {"chat", "agent"}
  /\ ~chatLoading
  /\ Quiet /\ \A s \in Streams : chatPc[s] = "none"
  /\ \E q \in Queries, kb \in {NoKB, KB(1)}, ids \in Selections :
       /\ <<q, kb, ids>> # <<chatInput, selectedKB, kbDocumentGroupIds>>
       /\ chatInput' = q
       /\ selectedKB' = kb
       /\ kbDocumentGroupIds' = ids
  /\ out' = {}
  /\ retrievalReq' = NoReq
  /\ rejected' = ""
  /\ UNCHANGED <<view, issued, streamVars, closureVars, llmInputVars,
                 llmVars, chatVars, tabInputVars, tabVars, crudVars>>

ChatRetrievalParams ==
  [sent |-> TRUE, from |-> "chat", query |-> Trim(chatInput),
   top_k |-> OrDefault(retrievalSettings.topK, 20),
   min_score |-> OrDefault(retrievalSettings.minScore, 60),
   group_ids |-> [present |-> TRUE, ids |-> kbDocumentGroupIds],
   enable_refine |-> TRUE]

FirstFree ==
  CHOOSE s \in Streams : chatPc[s] = "none" /\ \A t \in Streams : t < s => chatPc[t] # "none"

\* handleSendMessage in conversation mode, up to `await smartRetrieval(...)`.
\* The input is disabled and the button loading while chatLoading.
ChatHandleSendMessage ==
  /\ view = "chat"
  /\ ~chatLoading
  /\ \E s \in Streams : chatPc[s] = "none"
  /\ IF Trim(chatInput) = <<>> \/ selectedKB.isNull
     THEN /\ out' = {}
          /\ retrievalReq' = NoReq
          /\ rejected' = ""
          /\ UNCHANGED <<issued, chatVars>>
     ELSE IF kbDocumentGroupIds = {}
     THEN /\ out' = {MsgWarning}
          /\ retrievalReq' = NoReq
          /\ rejected' = ""
          /\ UNCHANGED <<issued, chatVars>>
     ELSE /\ chatLoading' = TRUE
          /\ retrievalReq' = ChatRetrievalParams
          /\ rejected' = ""
          /\ issued' = [issued EXCEPT ![FirstFree] = [NoneIssued EXCEPT !.smartRetrieval = 1]]
          /\ chatPc' = [chatPc EXCEPT ![FirstFree] = "retrieval"]
          /\ out' = {}
          /\ UNCHANGED <<chatMessages, assistantMessage>>
  /\ UNCHANGED <<view, streamVars, closureVars, llmInputVars, llmVars, chatInputVars,
                 tabInputVars, tabVars, crudVars>>

\* smartRetrieval answers: on failure the catch block pushes a failure notice
\* (0 in chatMessages); on success the assistant message is pushed and
\* nextTick awaited.
ChatRetrievalSettles(s) ==
  /\ view = "chat"
  /\ chatPc[s] = "retrieval"
  /\ \/ /\ out' = {ConsoleError, MsgError}
        /\ rejected' \in {"smartRetrieval", ""}
        /\ chatMessages' = Append(chatMessages, 0)
        /\ chatLoading' = FALSE
        /\ chatPc' = [chatPc EXCEPT ![s] = "failed"]
        /\ UNCHANGED assistantMessage
     \/ /\ \E found \in BOOLEAN : out' = IF found THEN {} ELSE {MsgWarning}
        /\ rejected' = ""
        /\ assistantMessage' = [assistantMessage EXCEPT ![s] = NewMessage]
        /\ chatMessages' = Append(chatMessages, s)
        /\ chatPc' = [chatPc EXCEPT ![s] = "tick"]
        /\ UNCHANGED chatLoading
  /\ retrievalReq' = NoReq
  /\ UNCHANGED <<view, issued, streamVars, closureVars, llmInputVars,
                 llmVars, chatInputVars, tabInputVars, tabVars, crudVars>>

\* After nextTick: the typewriter is started, the stream is started and not
\* awaited, and the finally block runs.
ChatStartStream(s) ==
  /\ view = "chat"
  /\ chatPc[s] = "tick"
  /\ pendingText' = [pendingText EXCEPT ![s] = <<>>]
  /\ displayedLength' = [displayedLength EXCEPT ![s] = 0]
  /\ typewriterTimer' = [typewriterTimer EXCEPT ![s] =
                           IF assistantMessage[s].isStreaming THEN "pending" ELSE "null"]
  /\ rpc' = [rpc EXCEPT ![s] = "fetching"]
  /\ issued' = [issued EXCEPT ![s].stream = @ + 1]
  /\ chatLoading' = FALSE
  /\ chatPc' = [chatPc EXCEPT ![s] = "started"]
  /\ out' = {}
  /\ retrievalReq' = NoReq
  /\ rejected' = ""
  /\ UNCHANGED <<view, net, got, buffer, calls, llmInputVars, llmVars,
                 chatInputVars, chatMessages, assistantMessage, tabInputVars, tabVars, crudVars>>

ChatTypewriterFour(s) ==
  /\ view = "chat"
  /\ typewriterTimer[s] = "pending"
  /\ IF displayedLength[s] < Len(pendingText[s])
     THEN LET chunkSize == Min(4, Len(pendingText[s]) - displayedLength[s]) IN
          /\ assistantMessage' = [assistantMessage EXCEPT ![s].streamingContent =
                                    Substring0(pendingText[s], displayedLength[s] + chunkSize)]
          /\ displayedLength' = [displayedLength EXCEPT ![s] = @ + chunkSize]
          /\ UNCHANGED typewriterTimer
     ELSE IF assistantMessage[s].isStreaming
     THEN UNCHANGED <<assistantMessage, displayedLength, typewriterTimer>>
     ELSE /\ typewriterTimer' = [typewriterTimer EXCEPT ![s] = "dead"]
          /\ UNCHANGED <<assistantMessage, displayedLength>>
  /\ out' = {}
  /\ retrievalReq' = NoReq
  /\ rejected' = ""
  /\ UNCHANGED <<view, issued, streamVars, pendingText, llmInputVars,
                 llmVars, chatInputVars, chatLoading, chatMessages, chatPc,
                 tabInputVars, tabVars, crudVars>>

\* typewriterEffect of a chat message, run by its timer.
ChatTypewriter(s) ==
  /\ view = "chat"
  /\ typewriterTimer[s] = "pending"
  /\ IF displayedLength[s] < Len(pendingText[s])
     THEN LET chunkSize == Min(3, Len(pendingText[s]) - displayedLength[s]) IN
          /\ assistantMessage' = [assistantMessage EXCEPT ![s].streamingContent =
                                    Substring0(pendingText[s], displayedLength[s] + chunkSize)]
          /\ displayedLength' = [displayedLength EXCEPT ![s] = @ + chunkSize]
          /\ UNCHANGED typewriterTimer
     ELSE IF assistantMessage[s].isStreaming
     THEN UNCHANGED <<assistantMessage, displayedLength, typewriterTimer>>
     ELSE /\ typewriterTimer' = [typewriterTimer EXCEPT ![s] = "dead"]
          /\ UNCHANGED <<assistantMessage, displayedLength>>
  /\ out' = {}
  /\ retrievalReq' = NoReq
  /\ rejected' = ""
  /\ UNCHANGED <<view, issued, streamVars, pendingText, llmInputVars,
                 llmVars, chatInputVars, chatLoading, chatMessages, chatPc,
                 tabInputVars, tabVars, crudVars>>

\* ------------------------------------------- the chat in agent mode
MaxAgentEvents == 3    \* data events of one agent stream

\* The values of the minScore slider the model draws from (0 to 100, step 5).
MinScores == {0, 5, 60, 100}

DefaultSettings == [topK |-> ChatTopK, minScore |-> ChatMinScore]

\* a ?? b on a number: a number is neither null nor undefined
Nullish(a, b) == a

NoAgentRequest == [sent |-> FALSE, user_query |-> <<>>, top_k |-> 0, min_score |-> 0,
                   group_ids |-> {}]

\* The data objects generateRequirementDocumentStream hands to its first
\* callback.
AgentChunk(stage, content) == [type |-> "chunk", stage |-> stage, content |-> content]
AgentProgress(stage) == [type |-> "progress", stage |-> stage, content |-> <<>>]
AgentResult(document) == [type |-> "result", stage |-> "", content |-> document]

AgentData ==
  {AgentChunk("retrieving", T2), AgentChunk("generating", T1), AgentChunk("optimizing", T2),
   AgentProgress("generating"), AgentProgress("reviewing"), AgentProgress("optimizing"),
   AgentResult(T1)}

agentFrame ==
  <<view, issued, streamVars, llmInputVars, llmVars, chatInputVars, tabInputVars, tabVars,
    ioVars, dialogVars, graphVars, kbVars, convertVars, docsVars, historyVars>>

\* handleAgentRetrievalSettingsConfirm: the settings of the dialog are
\* assigned to agentRetrievalSettings.
AgentHandleRetrievalSettingsConfirm ==
  /\ view = "agent"
  /\ chatPc[1] = "none"
  /\ \E m \in MinScores :
       /\ m # agentRetrievalSettings.minScore
       /\ agentRetrievalSettings' = [agentRetrievalSettings EXCEPT !.minScore = m]
  /\ out' = {MsgSuccess}
  /\ retrievalReq' = NoReq
  /\ rejected' = ""
  /\ UNCHANGED <<retrievalSettings, agentVars, closureVars, chatVars, agentFrame>>

\* handleSendMessage in agent mode, up to `await nextTick()`: the request is
\* built and the assistant message pushed.
AgentHandleSendMessage ==
  /\ view = "agent"
  /\ ~chatLoading
  /\ chatPc[1] = "none"
  /\ IF Trim(chatInput) = <<>> \/ selectedKB.isNull
     THEN /\ out' = {}
          /\ UNCHANGED <<agentVars, chatVars>>
     ELSE IF kbDocumentGroupIds = {}
     THEN /\ out' = {MsgWarning}
          /\ UNCHANGED <<agentVars, chatVars>>
     ELSE /\ chatLoading' = TRUE
          /\ agentRequest' =
               [sent |-> FALSE,
                user_query |-> Trim(chatInput),
                top_k |-> OrDefault(agentRetrievalSettings.topK, 20),
                min_score |-> Nullish(agentRetrievalSettings.minScore, 60),
                group_ids |-> kbDocumentGroupIds]
          /\ assistantMessage' = [assistantMessage EXCEPT ![1] = NewMessage]
          /\ currentStage' = "init"
          /\ chatMessages' = Append(chatMessages, 1)
          /\ chatPc' = [chatPc EXCEPT ![1] = "tick"]
          /\ out' = {}
          /\ UNCHANGED <<currentStageText, agentEvents>>
  /\ retrievalReq' = NoReq
  /\ rejected' = ""
  /\ UNCHANGED <<settingsVars, closureVars, agentFrame>>

\* After nextTick: the typewriter is started, the request is handed to
\* generateRequirementDocumentStream, which is not awaited, and the finally
\* block runs.
AgentStartStream ==
  /\ view = "agent"
  /\ chatPc[1] = "tick"
  /\ pendingText' = [pendingText EXCEPT ![1] = <<>>]
  /\ displayedLength' = [displayedLength EXCEPT ![1] = 0]
  /\ typewriterTimer' = [typewriterTimer EXCEPT ![1] =
                           IF assistantMessage[1].isStreaming THEN "pending" ELSE "null"]
  /\ currentStageText' = <<>>
  /\ agentRequest' = [agentRequest EXCEPT !.sent = TRUE]
  /\ chatLoading' = FALSE
  /\ chatPc' = [chatPc EXCEPT ![1] = "started"]
  /\ out' = {}
  /\ retrievalReq' = NoReq
  /\ rejected' = ""
  /\ UNCHANGED <<settingsVars, currentStage, agentEvents, chatMessages, assistantMessage,
                 agentFrame>>

\* The first callback: a chunk of a stage that is shown is appended to the
\* text of the stage; a progress event sets the stage of the message and
\* then compares the stage of the event with it; the result replaces the
\* text shown.
AgentOnData(data) ==
  /\ view = "agent"
  /\ chatPc[1] = "started"
  /\ agentEvents < MaxAgentEvents
  /\ agentEvents' = agentEvents + 1
  /\ CASE data.type = "chunk" ->
            /\ IF data.stage \in {"generating", "optimizing", "reviewing"}
               THEN /\ currentStageText' = currentStageText \o data.content
                    /\ pendingText' = [pendingText EXCEPT ![1] = currentStageText']
               ELSE UNCHANGED <<currentStageText, pendingText>>
            /\ UNCHANGED <<currentStage, displayedLength, assistantMessage>>
       [] data.type = "progress" ->
            LET stage == IF data.stage = "" THEN "init" ELSE data.stage IN
            /\ currentStage' = stage
            /\ IF \/ data.stage = "generating" /\ stage # "generating"
                  \/ data.stage = "optimizing" /\ stage # "optimizing"
               THEN /\ currentStageText' = <<>>
                    /\ pendingText' = [pendingText EXCEPT ![1] = <<>>]
                    /\ displayedLength' = [displayedLength EXCEPT ![1] = 0]
               ELSE UNCHANGED <<currentStageText, pendingText, displayedLength>>
            /\ UNCHANGED assistantMessage
       [] OTHER ->
            /\ assistantMessage' = [assistantMessage EXCEPT ![1].content = data.content,
                                                            ![1].streamingContent = data.content]
            /\ UNCHANGED <<currentStage, currentStageText, pendingText, displayedLength>>
  /\ out' = {}
  /\ retrievalReq' = NoReq
  /\ rejected' = ""
  /\ UNCHANGED <<settingsVars, agentRequest, typewriterTimer, chatLoading, chatMessages,
                 chatPc, agentFrame>>

\* The second callback: the stream is complete.
AgentOnDone ==
  /\ view = "agent"
  /\ chatPc[1] = "started"
  /\ assistantMessage' = [assistantMessage EXCEPT ![1].isStreaming = FALSE,
                                                  ![1].streamingContent = pendingText[1],
                                                  ![1].content = pendingText[1]]
  /\ typewriterTimer' = [typewriterTimer EXCEPT ![1] = Cleared(@)]
  /\ chatLoading' = FALSE
  /\ chatPc' = [chatPc EXCEPT ![1] = "ended"]
  /\ out' = {}
  /\ retrievalReq' = NoReq
  /\ rejected' = ""
  /\ UNCHANGED <<settingsVars, agentVars, pendingText, displayedLength, chatMessages,
                 agentFrame>>

\* The third callback: the stream failed.
AgentOnError ==
  /\ view = "agent"
  /\ chatPc[1] = "started"
  /\ assistantMessage' = [assistantMessage EXCEPT ![1].isStreaming = FALSE,
                                                  ![1].content = FailText("network"),
                                                  ![1].streamingContent = <<>>]
  /\ typewriterTimer' = [typewriterTimer EXCEPT ![1] = Cleared(@)]
  /\ chatLoading' = FALSE
  /\ chatPc' = [chatPc EXCEPT ![1] = "failed"]
  /\ out' = {ConsoleError, MsgError}
  /\ retrievalReq' = NoReq
  /\ rejected' = ""
  /\ UNCHANGED <<settingsVars, agentVars, pendingText, displayedLength, chatMessages,
                 agentFrame>>

\* typewriterEffect of the agent's message, run by its timer.
AgentTypewriter ==
  /\ view = "agent"
  /\ typewriterTimer[1] = "pending"
  /\ IF displayedLength[1] < Len(pendingText[1])
     THEN LET chunkSize == Min(3, Len(pendingText[1]) - displayedLength[1]) IN
          /\ assistantMessage' = [assistantMessage EXCEPT ![1].streamingContent =
                                    Substring0(pendingText[1], displayedLength[1] + chunkSize)]
          /\ displayedLength' = [displayedLength EXCEPT ![1] = @ + chunkSize]
          /\ UNCHANGED typewriterTimer
     ELSE IF assistantMessage[1].isStreaming
     THEN UNCHANGED <<assistantMessage, displayedLength, typewriterTimer>>
     ELSE /\ typewriterTimer' = [typewriterTimer EXCEPT ![1] = "dead"]
          /\ UNCHANGED <<assistantMessage, displayedLength>>
  /\ out' = {}
  /\ retrievalReq' = NoReq
  /\ rejected' = ""
  /\ UNCHANGED <<settingsVars, agentVars, pendingText, chatLoading, chatMessages, chatPc,
                 agentFrame>>

\* --------------------------------------- convertV4ResultsToLLMFormat
MaxItems == 2    \* items of one list of a retrieval result

\* The scores of the items, in percent.
Scores == {60, 90}

\* The values of maxResults the function is called with.
MaxResultsValues == {0, 1, 2, 3, 20}

\* A list of a retrieval result: absent, or the items with these scores,
\* each known by its place in the list.
Absent == [present |-> FALSE, items |-> <<>>]
ListOf(scores) ==
  [present |-> TRUE, items |-> [i \in DOMAIN scores |-> [id |-> i, score |-> scores[i]]]]
Lists == {Absent} \cup {ListOf(scores) : scores \in SeqsUpTo(Scores, MaxItems)}

NoV4 == [chunk_results |-> Absent, graphiti |-> Absent, cognee |-> Absent]
RetrievalResults == [chunk_results : Lists, graphiti : Lists, cognee : Lists]

NotConverted == [done |-> FALSE, results |-> <<>>]

\* x / 100, kept as a fraction
Div100(x) == [num |-> x, den |-> 100]

\* The entry pushed for an item of a list.
Pushed(source, list) ==
  [i \in DOMAIN list.items |->
     [source |-> source, id |-> list.items[i].id, score |-> Div100(list.items[i].score)]]

\* The comparator of the sort, (a, b) => b.score - a.score, times 100.
CompareAscending(a, b) == a.score.num - b.score.num
Compare(a, b) == b.score.num - a.score.num

\* Array.prototype.sort is stable: an element goes behind every element the
\* comparator does not put behind it.
RECURSIVE Insert(_, _)
Insert(sorted, x) ==
  IF sorted = <<>> THEN <<x>>
  ELSE IF Compare(Head(sorted), x) <= 0 THEN <<Head(sorted)>> \o Insert(Tail(sorted), x)
  ELSE <<x>> \o sorted

RECURSIVE Sort(_)
Sort(results) ==
  IF results = <<>> THEN <<>>
  ELSE Insert(Sort(SubSeq(results, 1, Len(results) - 1)), results[Len(results)])

\* results.slice(0, n) for n >= 0
Slice0(results, n) == SubSeq(results, 1, Min(n, Len(results)))

convertV4ResultsToLLMFormat(retrieval, n) ==
  LET results == Pushed("DocumentChunk", retrieval.chunk_results)
                   \o Pushed("Graphiti", retrieval.graphiti)
                   \o Pushed("Cognee", retrieval.cognee)
  IN Slice0(Sort(results), n)

\* The call of the function in handleSendMessage and handleExecute.
Convert ==
  /\ view = "convert"
  /\ ~llmFormatResults.done
  /\ llmFormatResults' =
       [done |-> TRUE, results |-> convertV4ResultsToLLMFormat(retrievalResultV4, maxResults)]
  /\ out' = IF llmFormatResults'.results = <<>> THEN {MsgWarning} ELSE {}
  /\ retrievalReq' = NoReq
  /\ rejected' = ""
  /\ UNCHANGED <<view, issued, streamVars, closureVars, llmInputVars, llmVars, chatInputVars,
                 chatVars, tabInputVars, tabVars, sent, tasks, log, twice, dialogVars,
                 graphVars, kbVars, settingsVars, agentVars, retrievalResultV4, maxResults,
                 docsVars, historyVars>>

\* ------------------------------- the document list of a knowledge base
MaxDocs == 3        \* documents of the selected knowledge base
PageSize == 2       \* documentsPagination.pageSize (10), scaled to MaxDocs
AllPageSize == 2    \* page_size of the loop over all pages (100), scaled to MaxDocs

Keywords == {<<>>, <<"q">>}

\* The documents a knowledge base can hold: the k-th has no document_id, a
\* blank one or "dk", and its name matches the keyword or not.
DocumentIds(k) == {"", " ", <<"d1", "d2", "d3">>[k]}
DocumentLists ==
  UNION {{list \in [1..n -> [document_id : {"", " ", "d1", "d2", "d3"}, matches : BOOLEAN]] :
            \A k \in 1..n : list[k].document_id \in DocumentIds(k)} : n \in 0..MaxDocs}

Range(seq) == {seq[i] : i \in DOMAIN seq}

CeilDiv(a, b) == (a + b - 1) \div b

\* GET /knowledge-bases/{id}/documents with page, page_size and search: the
\* page of the documents that match the keyword, and how many match.
getKnowledgeBaseDocuments(params) ==
  LET Matches(doc) == params.search = <<>> \/ doc.matches
      matching == SelectSeq(kbDocuments, Matches)
      first == (params.page - 1) * params.page_size + 1
      last == Min(params.page * params.page_size, Len(matching))
  IN [documents |-> SubSeq(matching, first, last), total |-> Len(matching)]

\* doc.document_id && doc.document_id.trim() !== ''
HasDocumentId(doc) == doc.document_id # "" /\ doc.document_id # " "

docsFrame ==
  <<view, issued, streamVars, closureVars, llmInputVars, llmVars, chatInput, selectedKB,
    chatVars, tabInputVars, tabVars, ioVars, dialogVars, graphVars, kbVars, settingsVars,
    agentVars, convertVars, kbDocuments, historyVars>>

\* The search box of the document list (v-model).
DocsInput ==
  /\ view = "docs"
  /\ \E keyword \in Keywords \ {searchKeyword} : searchKeyword' = keyword
  /\ out' = {}
  /\ retrievalReq' = NoReq
  /\ rejected' = ""
  /\ UNCHANGED <<kbDocumentGroupIds, documentsPagination, documents, documentsLoading,
                 allCompletedDocumentIds, page, docsFrame>>

\* loadDocuments up to its first await.
DocsLoadDocuments ==
  /\ view = "docs"
  /\ ~documentsLoading
  /\ IF selectedKB.isNull
     THEN UNCHANGED <<documentsLoading, page>>
     ELSE /\ documentsLoading' = TRUE
          /\ page' = 0
  /\ out' = {}
  /\ retrievalReq' = NoReq
  /\ rejected' = ""
  /\ UNCHANGED <<kbDocumentGroupIds, searchKeyword, documentsPagination, documents,
                 allCompletedDocumentIds, docsFrame>>

\* The catch and finally blocks of loadDocuments.
DocsCatch ==
  /\ documents' = <<>>
  /\ documentsPagination' = [documentsPagination EXCEPT !.total = 0]
  /\ kbDocumentGroupIds' = {}
  /\ documentsLoading' = FALSE
  /\ out' = {ConsoleError, MsgError}
  /\ rejected' = "getKnowledgeBaseDocuments"
  /\ UNCHANGED <<allCompletedDocumentIds, page>>

\* The first request of loadDocuments settles.
DocsFirstSettles(ok) ==
  /\ view = "docs"
  /\ documentsLoading
  /\ page = 0
  /\ IF ok
     THEN LET res == getKnowledgeBaseDocuments(
                       [page |-> documentsPagination.current,
                        page_size |-> documentsPagination.pageSize,
                        search |-> searchKeyword])
          IN /\ documents' = res.documents
             /\ documentsPagination' = [documentsPagination EXCEPT !.total = res.total]
             /\ allCompletedDocumentIds' = <<>>
             /\ IF res.total > 0
                THEN /\ page' = 1
                     /\ UNCHANGED <<kbDocumentGroupIds, documentsLoading>>
                ELSE /\ kbDocumentGroupIds' = {}
                     /\ documentsLoading' = FALSE
                     /\ UNCHANGED page
             /\ out' = {}
             /\ rejected' = ""
     ELSE DocsCatch
  /\ retrievalReq' = NoReq
  /\ UNCHANGED <<searchKeyword, docsFrame>>

\* A request of the loop over all pages settles.
DocsPageSettles(ok) ==
  /\ view = "docs"
  /\ documentsLoading
  /\ page >= 1
  /\ IF ok
     THEN LET pageRes == getKnowledgeBaseDocuments(
                           [page |-> page, page_size |-> AllPageSize,
                            search |-> searchKeyword])
              completed == SelectSeq(pageRes.documents, HasDocumentId)
              completedIds == [i \in DOMAIN completed |-> completed[i].document_id]
              totalPages == CeilDiv(documentsPagination.total, AllPageSize)
          IN /\ allCompletedDocumentIds' = allCompletedDocumentIds \o completedIds
             /\ IF page + 1 <= totalPages
                THEN /\ page' = page + 1
                     /\ UNCHANGED <<kbDocumentGroupIds, documentsLoading>>
                ELSE /\ kbDocumentGroupIds' = Range(allCompletedDocumentIds')
                     /\ documentsLoading' = FALSE
                     /\ UNCHANGED page
             /\ out' = {}
             /\ rejected' = ""
             /\ UNCHANGED <<documents, documentsPagination>>
     ELSE DocsCatch
  /\ retrievalReq' = NoReq
  /\ UNCHANGED <<searchKeyword, docsFrame>>

\* ------------------------------------------- the smart-retrieval tab
TabTopK == 50
TabMinScore == 70

TabEdit ==
  /\ view = "tab"
  /\ ~executing
  /\ \E q \in Queries, m \in {"all", "selected"}, sel \in Selections :
       /\ <<q, m, sel>> # <<queryText, searchMode, selectedGroupIds>>
       /\ queryText' = q
       /\ searchMode' = m
       /\ selectedGroupIds' = sel
  /\ out' = {}
  /\ retrievalReq' = NoReq
  /\ rejected' = ""
  /\ UNCHANGED <<view, issued, streamVars, closureVars, llmInputVars,
                 llmVars, chatInputVars, chatVars, tabVars, crudVars>>

\* params: group_ids is set only in the 'selected' mode.
TabRetrievalParams ==
  [sent |-> TRUE, from |-> "tab", query |-> queryText, top_k |-> TabTopK,
   min_score |-> TabMinScore,
   group_ids |-> IF searchMode = "selected"
                 THEN [present |-> TRUE, ids |-> selectedGroupIds]
                 ELSE NoGroupIds,
   enable_refine |-> TRUE]

TabRefusesBlankOnly == Trim(queryText) = <<>>

TabRefuses ==
  \/ Trim(queryText) = <<>>
  \/ searchMode = "selected" /\ selectedGroupIds = {}

\* handleExecute of the tab up to `await smartRetrieval(params)`.
TabHandleExecute ==
  /\ view = "tab"
  /\ ~executing
  /\ IF TabRefuses
     THEN /\ out' = {MsgWarning}
          /\ retrievalReq' = NoReq
          /\ rejected' = ""
          /\ UNCHANGED <<issued, executing, executionStatus,
                         executionResult, tabPc>>
     ELSE /\ executing' = TRUE
          /\ executionStatus' = "initialising"
          /\ executionResult' = NullResult
          /\ retrievalReq' = TabRetrievalParams
          /\ rejected' = ""
          /\ issued' = [issued EXCEPT ![1] = [NoneIssued EXCEPT !.smartRetrieval = 1]]
          /\ tabPc' = "retrieval"
          /\ out' = {}
  /\ UNCHANGED <<view, streamVars, closureVars, llmInputVars, retrievalResult,
                 streamingContent, isStreaming, streamingAbortController, llmPc,
                 chatInputVars, chatVars, tabInputVars, crudVars>>

\* smartRetrieval answers: the result is shown, or the error is logged and
\* shown; the finally block ends the execution.
TabRetrievalSettles ==
  /\ view = "tab"
  /\ tabPc = "retrieval"
  /\ \/ /\ executionResult' = FreshResult
        /\ out' = {MsgSuccess}
        /\ rejected' = ""
     \/ /\ out' = {ConsoleError, MsgError}
        /\ rejected' \in {"smartRetrieval", ""}
        /\ UNCHANGED executionResult
  /\ executing' = FALSE
  /\ executionStatus' = ""
  /\ tabPc' = "idle"
  /\ retrievalReq' = NoReq
  /\ UNCHANGED <<view, issued, streamVars, closureVars, llmInputVars,
                 retrievalResult, streamingContent, isStreaming,
                 streamingAbortController, llmPc, chatInputVars, chatVars, tabInputVars,
                 crudVars>>

\* handleClear of the tab.
TabHandleClear ==
  /\ view = "tab"
  /\ executionResult' = NullResult
  /\ queryText' = <<>>
  /\ out' = {MsgSuccess}
  /\ retrievalReq' = NoReq
  /\ rejected' = ""
  /\ UNCHANGED <<view, issued, streamVars, closureVars, llmInputVars,
                 executing, executionStatus, retrievalResult, streamingContent,
                 isStreaming, streamingAbortController, llmPc, chatInputVars, chatVars,
                 searchMode, selectedGroupIds, tabVars, crudVars>>

\* ------------------------------------------------ response bodies
\* What the generation endpoint sends to a view: content events, then the
\* end of the answer.
Chunk(i) == IF i % 2 = 1 THEN T1 ELSE T2

RECURSIVE ContentBlocks(_)
ContentBlocks(k) ==
  IF k = 0 THEN <<>> ELSE Append(ContentBlocks(k - 1), DataBlock(EvContent(Chunk(k))))

Endings == {<<>>, <<DataBlock(EvError)>>, <<DataBlock(EvStats), DataBlock(EvDone)>>}

ViewBodies == {BodyOf(ContentBlocks(k) \o e, <<>>) : k \in {0, MaxEvents}, e \in Endings}

\* What any server can send to the reader: any blocks, and possibly a last
\* block without its blank line.
ApiBlocks == {DataBlock(e) : e \in AllEvents} \cup {CommentBlock, BadJsonBlock}
ApiTails == {<<>>, DataBlock(EvContent(T2)), DataBlock(EvDone) \o <<Nl>>}
ApiBodies == {BodyOf(b, t) : b \in SeqsUpTo(ApiBlocks, MaxEvents), t \in ApiTails}

Bodies == IF view = "api" THEN ApiBodies ELSE ViewBodies

\* The sizes of the pieces reader.read() hands over: any size for the reader
\* on its own; a block at a time or all the rest under a view.
BlockLen == Len(DataBlock(NoEv)) + 2
Cuts(n) == IF view = "api" THEN 1..n ELSE {Min(BlockLen, n), n}

\* ------------------------------------------- step7LLMGenerateStream
\* The callbacks cs of stream s are invoked: they are those of the view that
\* started the stream.
Deliver(s, cs) ==
  /\ calls' = [calls EXCEPT ![s] = @ \o cs]
  /\ CASE view = "llm" -> LlmDeliver(s, cs)
       [] view = "chat" -> ChatDeliver(s, cs)
       [] OTHER -> /\ out' = {}
                   /\ UNCHANGED <<closureVars, llmVars, chatVars>>

\* A caller without a view starts the stream.
ApiCall(s) ==
  /\ view = "api"
  /\ Quiet
  /\ s = 1
  /\ rpc' = [rpc EXCEPT ![s] = "fetching"]
  /\ issued' = [issued EXCEPT ![s].stream = @ + 1]
  /\ out' = {}
  /\ retrievalReq' = NoReq
  /\ rejected' = ""
  /\ UNCHANGED <<view, net, got, buffer, calls, closureVars, llmInputVars,
                 llmVars, chatInputVars, chatVars, tabInputVars, tabVars, crudVars>>

streamFrame == <<view, issued, llmInputVars, chatInputVars,
                 tabInputVars, tabVars, crudVars>>

\* fetch rejects: the outer catch.
FetchRejects(s) ==
  /\ rpc[s] = "fetching"
  /\ rpc' = [rpc EXCEPT ![s] = "failed"]
  /\ Deliver(s, <<CallError("network")>>)
  /\ UNCHANGED <<net, got, buffer>>
  /\ retrievalReq' = NoReq
  /\ rejected' = "stream"
  /\ UNCHANGED streamFrame

\* The response is not OK: an Error is thrown and reaches the outer catch.
FetchNotOk(s) ==
  /\ rpc[s] = "fetching"
  /\ rpc' = [rpc EXCEPT ![s] = "failed"]
  /\ \E kind \in HttpErrorKinds : Deliver(s, <<CallError(HttpErrorDetail(kind))>>)
  /\ UNCHANGED <<net, got, buffer>>
  /\ retrievalReq' = NoReq
  /\ rejected' = ""
  /\ UNCHANGED streamFrame

\* The response is OK: the reader is taken and the first read issued.
FetchOk(s) ==
  /\ rpc[s] = "fetching"
  /\ rpc' = [rpc EXCEPT ![s] = "reading"]
  /\ \E body \in Bodies : net' = [net EXCEPT ![s] = body]
  /\ out' = {}
  /\ UNCHANGED <<got, buffer, calls, closureVars, llmVars, chatVars>>
  /\ retrievalReq' = NoReq
  /\ rejected' = ""
  /\ UNCHANGED streamFrame

ReadChunkDropsTail(s) ==
  /\ rpc[s] = "reading"
  /\ got[s] < Len(net[s])
  /\ \E k \in Cuts(Len(net[s]) - got[s]) :
       LET value == SubSeq(net[s], got[s] + 1, got[s] + k)
           lines == Split(value)
           res == ProcessLines(SubSeq(lines, 1, Len(lines) - 1))
       IN /\ got' = [got EXCEPT ![s] = @ + k]
          /\ buffer' = [buffer EXCEPT ![s] = <<>>]
          /\ rpc' = [rpc EXCEPT ![s] = IF res.stopped THEN "returned" ELSE "reading"]
          /\ Deliver(s, res.calls)
  /\ UNCHANGED net
  /\ retrievalReq' = NoReq
  /\ rejected' = ""
  /\ UNCHANGED streamFrame

\* reader.read() resolves with a piece of the body.
ReadChunk(s) ==
  /\ rpc[s] = "reading"
  /\ got[s] < Len(net[s])
  /\ \E k \in Cuts(Len(net[s]) - got[s]) :
       LET value == SubSeq(net[s], got[s] + 1, got[s] + k)
           lines == Split(buffer[s] \o value)
           res == ProcessLines(SubSeq(lines, 1, Len(lines) - 1))
       IN /\ got' = [got EXCEPT ![s] = @ + k]
          /\ buffer' = [buffer EXCEPT ![s] = lines[Len(lines)]]
          /\ rpc' = [rpc EXCEPT ![s] = IF res.stopped THEN "returned" ELSE "reading"]
          /\ Deliver(s, res.calls)
  /\ UNCHANGED net
  /\ retrievalReq' = NoReq
  /\ rejected' = ""
  /\ UNCHANGED streamFrame

\* reader.read() resolves with done.
ReadEof(s) ==
  /\ rpc[s] = "reading"
  /\ got[s] = Len(net[s])
  /\ rpc' = [rpc EXCEPT ![s] = "ended"]
  /\ Deliver(s, <<CallDone>>)
  /\ UNCHANGED <<net, got, buffer>>
  /\ retrievalReq' = NoReq
  /\ rejected' = ""
  /\ UNCHANGED streamFrame

\* reader.read() rejects: the connection broke.
ReadRejects(s) ==
  /\ rpc[s] = "reading"
  /\ rpc' = [rpc EXCEPT ![s] = "failed"]
  /\ Deliver(s, <<CallError("network")>>)
  /\ UNCHANGED <<net, got, buffer>>
  /\ retrievalReq' = NoReq
  /\ rejected' = "stream"
  /\ UNCHANGED streamFrame

\* ------------------------------------------- requests, dialogs, promises
Endpoints ==
  {"step1GraphitiEpisode", "getGraphitiResult", "getGraphitiGraph", "previewEpisodeBody",
   "deleteGraphitiGraph", "step2CogneeBuild", "getCogneeGraph", "getChunksCogneeMapping",
   "deleteCogneeGraph", "getChunks", "getKnowledgeBases(my_created)",
   "getKnowledgeBases(my_joined)", "getKnowledgeBase", "getKnowledgeBaseDocuments(current)",
   "getKnowledgeBaseDocuments(all)", "createKnowledgeBase", "updateKnowledgeBase",
   "deleteKnowledgeBase", "deleteKnowledgeBaseDocument", "getChatHistory"}

DeleteEndpoints ==
  {"deleteKnowledgeBase", "deleteKnowledgeBaseDocument", "deleteGraphitiGraph",
   "deleteCogneeGraph"}

\* An awaited request: the endpoint, the knowledge base it names (0 when
\* none), the call on whose behalf it is awaited, the user action it stems
\* from, and the id the awaiting function keeps in a local.
Task(call, id, at, from, local) ==
  [call |-> call, id |-> id, at |-> at, from |-> from, local |-> local]

Req(call, at, from) == Task(call, 0, at, from, 0)

Key(t) == [from |-> t.from, at |-> t.at, call |-> t.call, id |-> t.id]

\* One step of a handler: the promises in old are settled, the requests in
\* new are sent and awaited. A user action starts the record anew.
Io(old, new, from, user) ==
  LET kept(S) == IF user THEN {} ELSE S
      keys == {Key(t) : t \in new}
  IN  /\ tasks' = (tasks \ old) \cup new
      /\ sent' = {t.call : t \in new}
      /\ log' = kept(log) \cup keys
      /\ twice' = kept(twice) \cup (keys \cap kept(log))
                    \cup {k \in keys : Cardinality({t \in new : Key(t) = k}) > 1}

\* A user action sends new; the answer to t arrives and new is sent.
Start(from, new) == Io({}, new, from, TRUE)
Settle(t, new) == Io({t}, new, "", FALSE)

\* A Modal.confirm is on screen, waiting for a choice or for the promise its
\* onOk returned: its mask covers the page.
OkPending == \E t \in tasks : t.from = "onOk"
ModalOpen == dialog # "none" \/ OkPending

\* Another dialog than the one task t belongs to is on screen.
Covered(t) == dialog # "none" \/ \E u \in tasks \ {t} : u.from = "onOk"

\* onMounted: loadKnowledgeBases up to its first await.
OnMounted == Task("getKnowledgeBases(my_created)", 0, "loadKnowledgeBases", "onMounted", 0)

\* The user leaves a confirm dialog by Cancel.
Dismiss ==
  /\ dialog' = "none"
  /\ choice' = "cancel"
  /\ out' = {}
  /\ rejected' = ""
  /\ Start("onCancel", {})

\* ------------------------------------------------------ the Graphiti tab
NoDoc == ""
Docs == {"u1"}

\* The result of a build or of getGraphitiResult, with or without group_id.
GraphResult(g) == [isNull |-> FALSE, group_id |-> g]

\* executionResult.value?.group_id
HasGroupId(r) == ~r.isNull /\ r.group_id

graphFrame ==
  <<view, issued, retrievalReq, streamVars, closureVars, llmInputVars, retrievalResult,
    streamingContent, isStreaming, streamingAbortController, llmPc, chatInputVars,
    chatVars, tabInputVars, tabVars, kbVars, auxVars>>

\* handleDocumentChange: the episode body is loaded and the document's
\* result asked for. The select is disabled while executing.
GraphitiHandleDocumentChange ==
  /\ view = "graphiti"
  /\ ~executing /\ ~ModalOpen
  /\ \A t \in tasks : t.at \notin {"handleDocumentChange", "handleLoadEpisodeBody"}
  /\ \E val \in Docs \cup {NoDoc} :
       /\ selectedDocumentId' = val
       /\ IF val # NoDoc
          THEN /\ Start("handleDocumentChange",
                     {Req("previewEpisodeBody", "handleLoadEpisodeBody",
                          "handleDocumentChange"),
                      Req("getGraphitiResult", "handleDocumentChange",
                          "handleDocumentChange")})
               /\ UNCHANGED <<selectedDocumentHasGraph, executionResult>>
          ELSE /\ Start("handleDocumentChange", {})
               /\ selectedDocumentHasGraph' = FALSE
               /\ executionResult' = NullResult
  /\ out' = {}
  /\ rejected' = ""
  /\ UNCHANGED <<dialog, choice, executing, executionStatus, deletingGraph,
                 skipConfirmation>>
  /\ UNCHANGED graphFrame

\* getGraphitiResult of handleDocumentChange answers; a rejection is taken
\* for a document that was never processed, and nothing is shown.
GraphitiDocumentResultSettles ==
  /\ view = "graphiti"
  /\ \E t \in tasks :
       /\ t.at = "handleDocumentChange"
       /\ Settle(t, {})
       /\ \/ /\ selectedDocumentHasGraph' = TRUE
             /\ executionResult' = GraphResult(TRUE)
             /\ out' = {}
             /\ rejected' = ""
          \/ /\ selectedDocumentHasGraph' = FALSE
             /\ executionResult' = NullResult
             /\ out' \in {{}, {MsgInfo}}
             /\ rejected' = ""
          \/ /\ selectedDocumentHasGraph' = FALSE
             /\ executionResult' = NullResult
             /\ out' = {}
             /\ rejected' = t.call
  /\ UNCHANGED <<dialog, choice, executing, executionStatus, selectedDocumentId,
                 deletingGraph, skipConfirmation>>
  /\ UNCHANGED graphFrame

\* previewEpisodeBody of handleLoadEpisodeBody answers.
GraphitiEpisodeBodySettles ==
  /\ view = "graphiti"
  /\ \E t \in tasks :
       /\ t.at = "handleLoadEpisodeBody"
       /\ Settle(t, {})
       /\ \/ out' = {} /\ rejected' = ""
          \/ out' = {MsgError} /\ rejected' = t.call
  /\ UNCHANGED <<dialog, choice, executing, executionStatus, executionResult,
                 selectedDocumentId, selectedDocumentHasGraph, deletingGraph,
                 skipConfirmation>>
  /\ UNCHANGED graphFrame

\* handleExecuteGraphiti up to the await in executeGraphitiWithMode. The
\* button is disabled without a document and loading while executing, so
\* the early return is never taken.
GraphitiHandleExecute ==
  /\ view = "graphiti"
  /\ selectedDocumentId # NoDoc
  /\ ~executing /\ ~ModalOpen
  /\ rejected' = ""
  /\ \/ \* the template is not JSON
        /\ out' = {MsgError}
        /\ Start("handleExecuteGraphiti", {})
        /\ executionStatus' = "processing"
        /\ UNCHANGED executing
     \/ /\ out' = {}
        /\ Start("handleExecuteGraphiti",
                 {Req("step1GraphitiEpisode", "executeGraphitiWithMode",
                      "handleExecuteGraphiti")})
        /\ executing' = TRUE
        /\ executionStatus' = "processing"
  /\ UNCHANGED <<dialog, choice, executionResult, selectedDocumentId,
                 selectedDocumentHasGraph, deletingGraph, skipConfirmation>>
  /\ UNCHANGED graphFrame

\* step1GraphitiEpisode answers in executeGraphitiWithMode.
GraphitiBuildSettles ==
  /\ view = "graphiti"
  /\ \E t \in tasks :
       /\ t.call = "step1GraphitiEpisode"
       /\ \/ \* rejected: catch, finally
             /\ Settle(t, {})
             /\ out' = {MsgError}
             /\ rejected' = t.call
             /\ executing' = FALSE /\ executionStatus' = ""
             /\ UNCHANGED dialog
          \/ \* needs_confirmation: the dialog is shown, the state reset
             /\ ~Covered(t)
             /\ Settle(t, {})
             /\ out' = {}
             /\ rejected' = ""
             /\ dialog' = "rebuild"
             /\ executing' = FALSE /\ executionStatus' = ""
          \/ \* success is false
             /\ Settle(t, {})
             /\ out' = {ConsoleError, MsgError}
             /\ rejected' = ""
             /\ executing' = FALSE /\ executionStatus' = ""
             /\ UNCHANGED dialog
          \/ \* success: the summary of the result is asked for
             /\ Settle(t, {Req("getGraphitiResult", "executeGraphitiWithMode", t.from)})
             /\ out' = {MsgSuccess}
             /\ rejected' = ""
             /\ UNCHANGED <<dialog, executing, executionStatus>>
  /\ UNCHANGED <<choice, executionResult, selectedDocumentId, selectedDocumentHasGraph,
                 deletingGraph, skipConfirmation>>
  /\ UNCHANGED graphFrame

\* getGraphitiResult answers in executeGraphitiWithMode: with the summary,
\* or else the build's own response is kept and a warning shown; with a
\* group_id the graph is fetched, without one the finally block runs.
GraphitiSummarySettles ==
  /\ view = "graphiti"
  /\ \E t \in tasks, g \in BOOLEAN :
       /\ t.call = "getGraphitiResult" /\ t.at = "executeGraphitiWithMode"
       /\ \/ out' = {MsgSuccess} /\ rejected' = ""
          \/ out' = {MsgWarning} /\ rejected' = ""
          \/ out' = {MsgWarning} /\ rejected' = t.call
       /\ executionResult' = GraphResult(g)
       /\ IF g
          THEN /\ Settle(t, {Req("getGraphitiGraph", "fetchGraphData", t.from)})
               /\ UNCHANGED <<executing, executionStatus>>
          ELSE /\ Settle(t, {})
               /\ executing' = FALSE /\ executionStatus' = ""
  /\ UNCHANGED <<dialog, choice, selectedDocumentId, selectedDocumentHasGraph,
                 deletingGraph, skipConfirmation>>
  /\ UNCHANGED graphFrame

\* getGraphitiGraph answers in fetchGraphData; executeGraphitiWithMode ends.
GraphitiGraphSettles ==
  /\ view = "graphiti"
  /\ \E t \in tasks :
       /\ t.at = "fetchGraphData"
       /\ Settle(t, {})
       /\ \/ out' = {MsgSuccess} /\ rejected' = ""
          \/ out' = {MsgError} /\ rejected' = t.call
  /\ executing' = FALSE /\ executionStatus' = ""
  /\ UNCHANGED <<dialog, choice, executionResult, selectedDocumentId,
                 selectedDocumentHasGraph, deletingGraph, skipConfirmation>>
  /\ UNCHANGED graphFrame

\* OK in the rebuild dialog: the old episode is deleted first.
GraphitiRebuildOk ==
  /\ view = "graphiti"
  /\ dialog = "rebuild"
  /\ dialog' = "none"
  /\ choice' = "ok"
  /\ executing' = TRUE
  /\ executionStatus' = "deleting"
  /\ Start("onOk", {Req("deleteGraphitiGraph", "rebuild", "onOk")})
  /\ out' = {}
  /\ rejected' = ""
  /\ UNCHANGED <<executionResult, selectedDocumentId, selectedDocumentHasGraph,
                 deletingGraph, skipConfirmation>>
  /\ UNCHANGED graphFrame

GraphitiRebuildDeleteSettlesAnyway ==
  /\ view = "graphiti"
  /\ \E t \in tasks :
       /\ t.call = "deleteGraphitiGraph" /\ t.at = "rebuild"
       /\ Settle(t, {Req("step1GraphitiEpisode", "executeGraphitiWithMode", "onOk")})
       /\ \/ out' = {MsgSuccess} /\ rejected' = ""
          \/ out' = {MsgError} /\ rejected' = t.call
  /\ UNCHANGED <<dialog, choice, executing, executionStatus, executionResult,
                 selectedDocumentId, selectedDocumentHasGraph, deletingGraph,
                 skipConfirmation>>
  /\ UNCHANGED graphFrame

\* deleteGraphitiGraph answers in the rebuild dialog's onOk: the build is
\* run again, or the failure shown.
GraphitiRebuildDeleteSettles ==
  /\ view = "graphiti"
  /\ \E t \in tasks :
       /\ t.call = "deleteGraphitiGraph" /\ t.at = "rebuild"
       /\ \/ /\ Settle(t, {Req("step1GraphitiEpisode", "executeGraphitiWithMode", "onOk")})
             /\ out' = {MsgSuccess}
             /\ rejected' = ""
             /\ UNCHANGED <<executing, executionStatus>>
          \/ /\ Settle(t, {})
             /\ out' = {MsgError}
             /\ rejected' = t.call
             /\ executing' = FALSE /\ executionStatus' = ""
  /\ UNCHANGED <<dialog, choice, executionResult, selectedDocumentId,
                 selectedDocumentHasGraph, deletingGraph, skipConfirmation>>
  /\ UNCHANGED graphFrame

\* Cancel in the rebuild dialog.
GraphitiRebuildCancel ==
  /\ view = "graphiti"
  /\ dialog = "rebuild"
  /\ Dismiss
  /\ executing' = FALSE
  /\ executionStatus' = ""
  /\ UNCHANGED <<executionResult, selectedDocumentId, selectedDocumentHasGraph,
                 deletingGraph, skipConfirmation>>
  /\ UNCHANGED graphFrame

\* handleDeleteGraph: without a group_id the result is asked for first.
\* The button is disabled unless the selected document was processed, and
\* loading while deleting; it is clicked once at a time.
GraphitiHandleDeleteGraph ==
  /\ view = "graphiti"
  /\ selectedDocumentId # NoDoc
  /\ ~deletingGraph /\ ~ModalOpen
  /\ \A t \in tasks : t.at # "handleDeleteGraph"
  /\ rejected' = ""
  /\ IF ~HasGroupId(executionResult)
     THEN /\ out' = {}
          /\ Start("handleDeleteGraph",
                   {Req("getGraphitiResult", "handleDeleteGraph", "handleDeleteGraph")})
          /\ UNCHANGED dialog
     ELSE /\ out' = {}
          /\ Start("handleDeleteGraph", {})
          /\ dialog' = "deleteGraph"
  /\ UNCHANGED <<choice, executing, executionStatus, executionResult, selectedDocumentId,
                 selectedDocumentHasGraph, deletingGraph, skipConfirmation>>
  /\ UNCHANGED graphFrame

\* getGraphitiResult answers in handleDeleteGraph.
GraphitiDeleteCheckSettles ==
  /\ view = "graphiti"
  /\ \E t \in tasks :
       /\ t.at = "handleDeleteGraph"
       /\ Settle(t, {})
       /\ \/ /\ ~Covered(t)
             /\ executionResult' = GraphResult(TRUE)
             /\ dialog' = "deleteGraph"
             /\ out' = {}
             /\ rejected' = ""
          \/ /\ out' = {MsgWarning}
             /\ rejected' = ""
             /\ UNCHANGED <<executionResult, dialog>>
          \/ /\ out' = {MsgError}
             /\ rejected' = t.call
             /\ UNCHANGED <<executionResult, dialog>>
  /\ UNCHANGED <<choice, executing, executionStatus, selectedDocumentId,
                 selectedDocumentHasGraph, deletingGraph, skipConfirmation>>
  /\ UNCHANGED graphFrame

\* OK in the delete dialog.
GraphitiDeleteOk ==
  /\ view = "graphiti"
  /\ dialog = "deleteGraph"
  /\ dialog' = "none"
  /\ choice' = "ok"
  /\ deletingGraph' = TRUE
  /\ Start("onOk", {Req("deleteGraphitiGraph", "deleteGraph", "onOk")})
  /\ out' = {}
  /\ rejected' = ""
  /\ UNCHANGED <<executing, executionStatus, executionResult, selectedDocumentId,
                 selectedDocumentHasGraph, skipConfirmation>>
  /\ UNCHANGED graphFrame

\* deleteGraphitiGraph answers in the delete dialog's onOk.
GraphitiDeleteSettles ==
  /\ view = "graphiti"
  /\ \E t \in tasks :
       /\ t.call = "deleteGraphitiGraph" /\ t.at = "deleteGraph"
       /\ Settle(t, {})
       /\ \/ /\ out' \in {{MsgSuccess}, {MsgWarning}}
             /\ rejected' = ""
             /\ executionResult' = NullResult
          \/ /\ out' = {MsgError}
             /\ rejected' = t.call
             /\ UNCHANGED executionResult
  /\ deletingGraph' = FALSE
  /\ UNCHANGED <<dialog, choice, executing, executionStatus, selectedDocumentId,
                 selectedDocumentHasGraph, skipConfirmation>>
  /\ UNCHANGED graphFrame

\* Cancel in the delete dialog: there is no onCancel.
GraphitiDeleteCancel ==
  /\ view = "graphiti"
  /\ dialog = "deleteGraph"
  /\ Dismiss
  /\ UNCHANGED <<executing, executionStatus, executionResult, selectedDocumentId,
                 selectedDocumentHasGraph, deletingGraph, skipConfirmation>>
  /\ UNCHANGED graphFrame

\* -------------------------------------------------------- the Cognee tab
\* handleDocumentChange: the results are cleared and the chunks of the
\* document loaded. The select is disabled while executing.
CogneeHandleDocumentChange ==
  /\ view = "cognee"
  /\ ~executing /\ ~ModalOpen
  /\ \A t \in tasks : t.from # "handleDocumentChange"
  /\ \E val \in Docs \cup {NoDoc} :
       /\ selectedDocumentId' = val
       /\ Start("handleDocumentChange",
                IF val # NoDoc
                THEN {Req("getChunks", "loadChunks", "handleDocumentChange")}
                ELSE {})
  /\ executionResult' = NullResult
  /\ out' = {}
  /\ rejected' = ""
  /\ UNCHANGED <<dialog, choice, executing, executionStatus, selectedDocumentHasGraph,
                 deletingGraph, skipConfirmation>>
  /\ UNCHANGED graphFrame

\* getChunks answers in loadChunks; then loadChunksCogneeMapping.
CogneeChunksSettles ==
  /\ view = "cognee"
  /\ \E t \in tasks :
       /\ t.call = "getChunks"
       /\ \/ /\ Settle(t, IF selectedDocumentId # NoDoc
                         THEN {Req("getChunksCogneeMapping", "loadChunksCogneeMapping",
                                   t.from)}
                         ELSE {})
             /\ out' = {}
             /\ rejected' = ""
          \/ /\ Settle(t, {})
             /\ out' = {MsgWarning}
             /\ rejected' = t.call
  /\ UNCHANGED <<dialog, choice, executing, executionStatus, executionResult>>
  /\ UNCHANGED <<graphVars, graphFrame>>

\* getChunksCogneeMapping answers in loadChunksCogneeMapping: a rejection
\* empties the mapping and shows nothing. At the end of handleExecute the
\* finally block follows.
CogneeMappingSettles ==
  /\ view = "cognee"
  /\ \E t \in tasks :
       /\ t.call = "getChunksCogneeMapping"
       /\ Settle(t, {})
       /\ rejected' \in {"", t.call}
       /\ IF t.from \in {"handleExecute", "rebuild"}
          THEN executing' = FALSE /\ executionStatus' = ""
          ELSE UNCHANGED <<executing, executionStatus>>
  /\ out' = {}
  /\ UNCHANGED <<dialog, choice, executionResult>>
  /\ UNCHANGED <<graphVars, graphFrame>>

\* handleExecute up to the await of step2CogneeBuild. The button is disabled
\* without a document and while executing, so the early return is never
\* taken. The click hands the event to the handler as skipConfirmation; a
\* call without an argument takes the default.
CogneeHandleExecute ==
  /\ view = "cognee"
  /\ selectedDocumentId # NoDoc
  /\ ~executing /\ ~ModalOpen
  /\ \E skip \in BOOLEAN : skipConfirmation' = skip
  /\ rejected' = ""
  /\ \/ \* the template does not validate
        /\ out' \in {{}, {MsgWarning}}
        /\ Start("handleExecute", {})
        /\ UNCHANGED <<executing, executionStatus>>
     \/ /\ out' = {}
        /\ Start("handleExecute", {Req("step2CogneeBuild", "handleExecute", "handleExecute")})
        /\ executing' = TRUE
        /\ executionStatus' = "processing"
  /\ UNCHANGED <<dialog, choice, executionResult, selectedDocumentId,
                 selectedDocumentHasGraph, deletingGraph>>
  /\ UNCHANGED graphFrame

\* step2CogneeBuild answers in handleExecute.
CogneeBuildSettles ==
  /\ view = "cognee"
  /\ \E t \in tasks :
       /\ t.call = "step2CogneeBuild"
       /\ \/ \* rejected: catch, finally
             /\ Settle(t, {})
             /\ out' = {MsgError}
             /\ rejected' = t.call
             /\ executing' = FALSE /\ executionStatus' = ""
             /\ UNCHANGED <<dialog, executionResult>>
          \/ \* needs_confirmation, and confirmation is not skipped
             /\ ~skipConfirmation
             /\ ~Covered(t)
             /\ Settle(t, {})
             /\ out' = {}
             /\ rejected' = ""
             /\ dialog' = "rebuild"
             /\ executing' = FALSE /\ executionStatus' = ""
             /\ UNCHANGED executionResult
          \/ \* success is false, needs_confirmation is not set
             /\ Settle(t, {})
             /\ out' = {MsgError}
             /\ rejected' = ""
             /\ executing' = FALSE /\ executionStatus' = ""
             /\ UNCHANGED <<dialog, executionResult>>
          \/ \* anything else: the result is shown, the graph and the mapping loaded
             /\ \E g \in BOOLEAN :
                  /\ executionResult' = GraphResult(g)
                  /\ Settle(t, {IF g THEN Req("getCogneeGraph", "handleExecute", t.from)
                                     ELSE Req("getChunksCogneeMapping",
                                              "loadChunksCogneeMapping", t.from)})
             /\ out' = {MsgSuccess}
             /\ rejected' = ""
             /\ UNCHANGED <<dialog, executing, executionStatus>>
  /\ UNCHANGED choice
  /\ UNCHANGED <<graphVars, graphFrame>>

\* getCogneeGraph answers in handleExecute.
CogneeGraphSettles ==
  /\ view = "cognee"
  /\ \E t \in tasks :
       /\ t.call = "getCogneeGraph"
       /\ \/ /\ Settle(t, {Req("getChunksCogneeMapping", "loadChunksCogneeMapping", t.from)})
             /\ out' = {}
             /\ rejected' = ""
             /\ UNCHANGED <<executing, executionStatus>>
          \/ /\ Settle(t, {})
             /\ out' = {MsgError}
             /\ rejected' = t.call
             /\ executing' = FALSE /\ executionStatus' = ""
  /\ UNCHANGED <<dialog, choice, executionResult>>
  /\ UNCHANGED <<graphVars, graphFrame>>

\* OK in the rebuild dialog: every dialog is destroyed, and the old graph is
\* deleted by a function that onOk starts and does not await.
CogneeRebuildOk ==
  /\ view = "cognee"
  /\ dialog = "rebuild"
  /\ dialog' = "none"
  /\ choice' = "ok"
  /\ executing' = TRUE
  /\ executionStatus' = "deleting"
  /\ Start("rebuild", {Req("deleteCogneeGraph", "rebuild", "rebuild")})
  /\ out' = {}
  /\ rejected' = ""
  /\ UNCHANGED executionResult
  /\ UNCHANGED <<graphVars, graphFrame>>

\* deleteCogneeGraph answers in executeDeleteAndRebuild: handleExecute(true)
\* is called, or the failure shown.
CogneeRebuildDeleteSettles ==
  /\ view = "cognee"
  /\ \E t \in tasks :
       /\ t.call = "deleteCogneeGraph" /\ t.at = "rebuild"
       /\ \/ /\ Settle(t, {Req("step2CogneeBuild", "handleExecute", "rebuild")})
             /\ out' = {MsgSuccess}
             /\ rejected' = ""
             /\ skipConfirmation' = TRUE
             /\ executing' = TRUE /\ executionStatus' = "processing"
          \/ /\ Settle(t, {})
             /\ out' = {MsgError}
             /\ rejected' = t.call
             /\ executing' = FALSE /\ executionStatus' = ""
             /\ UNCHANGED skipConfirmation
  /\ UNCHANGED <<dialog, choice, executionResult, selectedDocumentId,
                 selectedDocumentHasGraph, deletingGraph>>
  /\ UNCHANGED graphFrame

\* Cancel in the rebuild dialog.
CogneeRebuildCancel ==
  /\ view = "cognee"
  /\ dialog = "rebuild"
  /\ Dismiss
  /\ executing' = FALSE
  /\ executionStatus' = ""
  /\ UNCHANGED executionResult
  /\ UNCHANGED <<graphVars, graphFrame>>

\* handleDeleteGraph. The button is disabled without a document and while
\* executing.
CogneeHandleDeleteGraph ==
  /\ view = "cognee"
  /\ selectedDocumentId # NoDoc
  /\ ~executing /\ ~ModalOpen
  /\ dialog' = "deleteGraph"
  /\ Start("handleDeleteGraph", {})
  /\ out' = {}
  /\ rejected' = ""
  /\ UNCHANGED <<choice, executing, executionStatus, executionResult>>
  /\ UNCHANGED <<graphVars, graphFrame>>

\* OK in the delete dialog.
CogneeDeleteOk ==
  /\ view = "cognee"
  /\ dialog = "deleteGraph"
  /\ dialog' = "none"
  /\ choice' = "ok"
  /\ Start("onOk", {Req("deleteCogneeGraph", "deleteGraph", "onOk")})
  /\ out' = {}
  /\ rejected' = ""
  /\ UNCHANGED <<executing, executionStatus, executionResult>>
  /\ UNCHANGED <<graphVars, graphFrame>>

\* deleteCogneeGraph answers in the delete dialog's onOk.
CogneeDeleteSettles ==
  /\ view = "cognee"
  /\ \E t \in tasks :
       /\ t.call = "deleteCogneeGraph" /\ t.at = "deleteGraph"
       /\ Settle(t, {})
       /\ \/ /\ out' = {MsgSuccess}
             /\ rejected' = ""
             /\ executionResult' = NullResult
          \/ /\ out' = {MsgError}
             /\ rejected' = t.call
             /\ UNCHANGED executionResult
  /\ UNCHANGED <<dialog, choice, executing, executionStatus>>
  /\ UNCHANGED <<graphVars, graphFrame>>

\* Cancel in the delete dialog: there is no onCancel.
CogneeDeleteCancel ==
  /\ view = "cognee"
  /\ dialog = "deleteGraph"
  /\ Dismiss
  /\ UNCHANGED <<executing, executionStatus, executionResult>>
  /\ UNCHANGED <<graphVars, graphFrame>>

\* ------------------------------------------------ the knowledge-base page
MaxKBs == 2
MaxActions == 3
KbIds == 1..MaxKBs
Names == {<<>>, <<" ">>, <<"n">>}

RequiredNothing(value) == TRUE

\* The rule of the name field, required: true, fails on the empty string.
Required(value) == value # <<>>

ServerIds == {k.id : k \in server}
ServerKB(i) == CHOOSE k \in server : k.id = i
NewId == CHOOSE i \in KbIds : i \notin ServerIds /\ \A j \in KbIds \ ServerIds : i <= j

\* The lists the server may answer with: the ids it holds, in any order.
Orderings(S) ==
  {q \in UNION {[1..n -> S] : n \in {Cardinality(S)}} : {q[i] : i \in DOMAIN q} = S}

\* The messages loaded from the chat history (3: neither the message of a
\* stream nor the failure notice).
HistoryMessages == <<3>>

formVars == <<createModalVisible, editModalVisible, createForm, editForm>>

kbFrame ==
  <<view, issued, retrievalReq, streamVars, closureVars, llmInputVars, llmVars,
    chatInput, chatLoading, assistantMessage, chatPc, tabInputVars, tabVars, graphVars,
    route, auxVars>>

\* The user acts when the page has settled and no dialog covers it; actions
\* counts what the user did.
AtRest == tasks = {} /\ dialog = "none" /\ actions < MaxActions /\ actions' = actions + 1
FormOpen == createModalVisible \/ editModalVisible

\* What follows `await loadKnowledgeBases()` in the handler task t stems
\* from, given the selectedKbId that loadKnowledgeBases leaves.
AfterLoadKnowledgeBases(t, kbId) ==
  IF t.from = "handleEditConfirm"
  THEN \* await loadSelectedKB()
       [selectedKbId |-> kbId,
        new |-> IF kbId # 0
                THEN {Task("getKnowledgeBase", kbId, "handleEditConfirm", t.from, 0)}
                ELSE {}]
  ELSE IF t.from = "handleCreateConfirm" /\ t.local # 0
  THEN \* selectKnowledgeBase(res.id)
       [selectedKbId |-> t.local,
        new |-> {Task("getKnowledgeBase", t.local, "handleCreateConfirm", t.from, 0)}]
  ELSE [selectedKbId |-> kbId, new |-> {}]

\* getKnowledgeBases({ filter_type: 'my_created' }) answers in
\* loadKnowledgeBases.
KbCreatedListSettles ==
  /\ view = "kb"
  /\ \E t \in tasks :
       /\ t.call = "getKnowledgeBases(my_created)"
       /\ \/ /\ privateKBs' \in Orderings(ServerIds)
             /\ Settle(t, {Task("getKnowledgeBases(my_joined)", 0, "loadKnowledgeBases",
                                t.from, t.local)})
             /\ out' = {}
             /\ rejected' = ""
             /\ UNCHANGED selectedKbId
          \/ LET after == AfterLoadKnowledgeBases(t, selectedKbId) IN
             /\ Settle(t, after.new)
             /\ selectedKbId' = after.selectedKbId
             /\ out' = {MsgError}
             /\ rejected' = t.call
             /\ UNCHANGED privateKBs
  /\ UNCHANGED <<dialog, choice, selectedKB, kbDocumentGroupIds, chatMessages, server,
                 formVars>>
  /\ UNCHANGED <<actions, kbFrame>>

\* getKnowledgeBases({ filter_type: 'my_joined' }) answers in
\* loadKnowledgeBases: the knowledge base of the route, or else the first
\* one, is selected, and selectKnowledgeBase is not awaited.
KbJoinedListSettles ==
  /\ view = "kb"
  /\ \E t \in tasks :
       /\ t.call = "getKnowledgeBases(my_joined)"
       /\ \/ LET kbId == IF route # 0 THEN route
                         ELSE IF privateKBs # <<>> THEN privateKBs[1] ELSE 0
                 after == AfterLoadKnowledgeBases(t, IF kbId # 0 THEN kbId ELSE selectedKbId)
             IN  /\ Settle(t, (IF kbId # 0
                               THEN {Task("getKnowledgeBase", kbId, "selectKnowledgeBase",
                                          t.from, 0)}
                               ELSE {}) \cup after.new)
                 /\ selectedKbId' = after.selectedKbId
                 /\ out' = {}
                 /\ rejected' = ""
          \/ LET after == AfterLoadKnowledgeBases(t, selectedKbId) IN
             /\ Settle(t, after.new)
             /\ selectedKbId' = after.selectedKbId
             /\ out' = {MsgError}
             /\ rejected' = t.call
  /\ UNCHANGED <<dialog, choice, selectedKB, kbDocumentGroupIds, chatMessages, server,
                 privateKBs, formVars>>
  /\ UNCHANGED <<actions, kbFrame>>

KbDetailSettlesRetrying ==
  /\ view = "kb"
  /\ \E t \in tasks :
       /\ t.call = "getKnowledgeBase"
       /\ \/ /\ t.id \in ServerIds
             /\ selectedKB' = ServerKB(t.id)
             /\ chatMessages' = <<>>
             /\ Settle(t, {Task("getChatHistory", t.id, t.at, t.from, 0),
                           Task("getKnowledgeBaseDocuments(current)", t.id, t.at, t.from, 0)})
             /\ out' = {}
             /\ rejected' = ""
          \/ /\ Settle(t, {t})
             /\ out' = {ConsoleError, MsgError}
             /\ rejected' = t.call
             /\ UNCHANGED <<selectedKB, chatMessages>>
  /\ UNCHANGED <<dialog, choice, kbDocumentGroupIds, server, privateKBs, selectedKbId,
                 formVars>>
  /\ UNCHANGED <<actions, kbFrame>>

\* getKnowledgeBase answers in loadSelectedKB: the knowledge base is shown,
\* the watcher of selectedKB empties the chat and loads its history, and the
\* documents are loaded; or the failure is logged and thrown to the caller,
\* which shows it.
KbDetailSettles ==
  /\ view = "kb"
  /\ \E t \in tasks :
       /\ t.call = "getKnowledgeBase"
       /\ \/ /\ t.id \in ServerIds
             /\ selectedKB' = ServerKB(t.id)
             /\ chatMessages' = <<>>
             /\ Settle(t, {Task("getChatHistory", t.id, t.at, t.from, 0),
                           Task("getKnowledgeBaseDocuments(current)", t.id, t.at, t.from, 0)})
             /\ out' = {}
             /\ rejected' = ""
          \/ /\ Settle(t, {})
             /\ out' = {ConsoleError, MsgError}
             /\ rejected' = t.call
             /\ UNCHANGED <<selectedKB, chatMessages>>
  /\ UNCHANGED <<dialog, choice, kbDocumentGroupIds, server, privateKBs, selectedKbId,
                 formVars>>
  /\ UNCHANGED <<actions, kbFrame>>

\* The page of the document list answers in loadDocuments: with documents,
\* all pages are asked for; with none, the scope of the chat is empty.
KbDocumentsSettles ==
  /\ view = "kb"
  /\ \E t \in tasks :
       /\ t.call = "getKnowledgeBaseDocuments(current)"
       /\ \/ /\ ~selectedKB.isNull
             /\ Settle(t, {Task("getKnowledgeBaseDocuments(all)", selectedKB.id, t.at,
                                t.from, 0)})
             /\ out' = {}
             /\ rejected' = ""
             /\ UNCHANGED kbDocumentGroupIds
          \/ /\ Settle(t, {})
             /\ kbDocumentGroupIds' = {}
             /\ out' = {}
             /\ rejected' = ""
          \/ /\ Settle(t, {})
             /\ kbDocumentGroupIds' = {}
             /\ out' = {ConsoleError, MsgError}
             /\ rejected' = t.call
  /\ UNCHANGED <<dialog, choice, selectedKB, chatMessages, server, privateKBs,
                 selectedKbId, formVars>>
  /\ UNCHANGED <<actions, kbFrame>>

\* The page of all documents answers in loadDocuments.
KbAllDocumentsSettles ==
  /\ view = "kb"
  /\ \E t \in tasks :
       /\ t.call = "getKnowledgeBaseDocuments(all)"
       /\ Settle(t, {})
       /\ \/ /\ kbDocumentGroupIds' \in Selections
             /\ out' = {}
             /\ rejected' = ""
          \/ /\ kbDocumentGroupIds' = {}
             /\ out' = {ConsoleError, MsgError}
             /\ rejected' = t.call
  /\ UNCHANGED <<dialog, choice, selectedKB, chatMessages, server, privateKBs,
                 selectedKbId, formVars>>
  /\ UNCHANGED <<actions, kbFrame>>

KbHistorySettlesLoud ==
  /\ view = "kb"
  /\ \E t \in tasks :
       /\ t.call = "getChatHistory"
       /\ Settle(t, {})
       /\ \/ /\ chatMessages' \in {chatMessages,
                                   IF chatMessages = <<>> THEN HistoryMessages
                                   ELSE chatMessages}
             /\ out' = {}
             /\ rejected' = ""
          \/ /\ out' = {ConsoleError, MsgError}
             /\ rejected' = t.call
             /\ UNCHANGED chatMessages
  /\ UNCHANGED <<dialog, choice, selectedKB, kbDocumentGroupIds, server, privateKBs,
                 selectedKbId, formVars>>
  /\ UNCHANGED <<actions, kbFrame>>

\* getChatHistory answers in loadChatHistory: the history fills an empty
\* chat; a rejection is logged only.
KbHistorySettles ==
  /\ view = "kb"
  /\ \E t \in tasks :
       /\ t.call = "getChatHistory"
       /\ Settle(t, {})
       /\ \/ /\ chatMessages' \in {chatMessages,
                                   IF chatMessages = <<>> THEN HistoryMessages
                                   ELSE chatMessages}
             /\ out' = {}
             /\ rejected' = ""
          \/ /\ out' = {ConsoleError}
             /\ rejected' = t.call
             /\ UNCHANGED chatMessages
  /\ UNCHANGED <<dialog, choice, selectedKB, kbDocumentGroupIds, server, privateKBs,
                 selectedKbId, formVars>>
  /\ UNCHANGED <<actions, kbFrame>>

\* A knowledge base of the list is clicked: selectKnowledgeBase.
KbSelectKnowledgeBase ==
  /\ view = "kb"
  /\ AtRest /\ ~FormOpen
  /\ \E i \in 1..Len(privateKBs) :
       /\ selectedKbId' = privateKBs[i]
       /\ Start("selectKnowledgeBase",
                {Task("getKnowledgeBase", privateKBs[i], "selectKnowledgeBase",
                      "selectKnowledgeBase", 0)})
  /\ out' = {}
  /\ rejected' = ""
  /\ UNCHANGED <<dialog, choice, selectedKB, kbDocumentGroupIds, chatMessages, server,
                 privateKBs, formVars>>
  /\ UNCHANGED kbFrame

\* handleCreateKB opens the create dialog.
KbHandleCreateKB ==
  /\ view = "kb"
  /\ AtRest /\ ~FormOpen
  /\ createForm' = <<>>
  /\ createModalVisible' = TRUE
  /\ Start("handleCreateKB", {})
  /\ out' = {}
  /\ rejected' = ""
  /\ UNCHANGED <<dialog, choice, selectedKB, kbDocumentGroupIds, chatMessages, server,
                 privateKBs, selectedKbId, editModalVisible, editForm>>
  /\ UNCHANGED kbFrame

\* handleEdit opens the edit dialog with the name of the selected knowledge
\* base.
KbHandleEdit ==
  /\ view = "kb"
  /\ AtRest /\ ~FormOpen
  /\ ~selectedKB.isNull
  /\ editForm' = selectedKB.name
  /\ editModalVisible' = TRUE
  /\ Start("handleEdit", {})
  /\ out' = {}
  /\ rejected' = ""
  /\ UNCHANGED <<dialog, choice, selectedKB, kbDocumentGroupIds, chatMessages, server,
                 privateKBs, selectedKbId, createModalVisible, createForm>>
  /\ UNCHANGED kbFrame

\* A name is typed into the open dialog.
KbInput ==
  /\ view = "kb"
  /\ AtRest /\ FormOpen
  /\ \E name \in Names :
       IF createModalVisible
       THEN createForm' = name /\ createForm # name /\ UNCHANGED editForm
       ELSE editForm' = name /\ editForm # name /\ UNCHANGED createForm
  /\ Start("input", {})
  /\ out' = {}
  /\ rejected' = ""
  /\ UNCHANGED <<dialog, choice, selectedKB, kbDocumentGroupIds, chatMessages, server,
                 privateKBs, selectedKbId, createModalVisible, editModalVisible>>
  /\ UNCHANGED kbFrame

\* handleCreateConfirm up to the await of createKnowledgeBase: a failed
\* validation rejects with errorFields and the catch block returns.
KbHandleCreateConfirm ==
  /\ view = "kb"
  /\ AtRest /\ createModalVisible
  /\ Required(createForm) => Cardinality(server) < MaxKBs
  /\ Start("handleCreateConfirm",
           IF Required(createForm)
           THEN {Task("createKnowledgeBase", 0, "handleCreateConfirm",
                      "handleCreateConfirm", 0)}
           ELSE {})
  /\ out' = {}
  /\ rejected' = ""
  /\ UNCHANGED <<dialog, choice, selectedKB, kbDocumentGroupIds, chatMessages, server,
                 privateKBs, selectedKbId, formVars>>
  /\ UNCHANGED kbFrame

\* createKnowledgeBase answers in handleCreateConfirm: the dialog is closed
\* and the list loaded again.
KbCreateSettles ==
  /\ view = "kb"
  /\ \E t \in tasks :
       /\ t.call = "createKnowledgeBase"
       /\ \/ /\ server' = server \cup {NamedKB(NewId, createForm)}
             /\ createModalVisible' = FALSE
             /\ Settle(t, {Task("getKnowledgeBases(my_created)", 0, "loadKnowledgeBases",
                                t.from, NewId)})
             /\ out' = {MsgSuccess}
             /\ rejected' = ""
          \/ /\ Settle(t, {})
             /\ out' = {MsgError}
             /\ rejected' = t.call
             /\ UNCHANGED <<server, createModalVisible>>
  /\ UNCHANGED <<dialog, choice, selectedKB, kbDocumentGroupIds, chatMessages, privateKBs,
                 selectedKbId, editModalVisible, createForm, editForm>>
  /\ UNCHANGED <<actions, kbFrame>>

\* The create dialog is cancelled.
KbCreateCancel ==
  /\ view = "kb"
  /\ AtRest /\ createModalVisible
  /\ createModalVisible' = FALSE
  /\ Start("cancel", {})
  /\ out' = {}
  /\ rejected' = ""
  /\ UNCHANGED <<dialog, choice, selectedKB, kbDocumentGroupIds, chatMessages, server,
                 privateKBs, selectedKbId, editModalVisible, createForm, editForm>>
  /\ UNCHANGED kbFrame

\* handleEditConfirm up to the await of updateKnowledgeBase.
KbHandleEditConfirm ==
  /\ view = "kb"
  /\ AtRest /\ editModalVisible
  /\ ~selectedKB.isNull
  /\ Start("handleEditConfirm",
           IF Required(editForm)
           THEN {Task("updateKnowledgeBase", selectedKB.id, "handleEditConfirm",
                      "handleEditConfirm", 0)}
           ELSE {})
  /\ out' = {}
  /\ rejected' = ""
  /\ UNCHANGED <<dialog, choice, selectedKB, kbDocumentGroupIds, chatMessages, server,
                 privateKBs, selectedKbId, formVars>>
  /\ editedKbId' = IF Required(editForm) /\ selectedKbId = selectedKB.id
                   THEN selectedKB.id ELSE 0
  /\ UNCHANGED <<view, issued, retrievalReq, streamVars, closureVars, llmInputVars, llmVars,
                 chatInput, chatLoading, assistantMessage, chatPc, tabInputVars, tabVars,
                 graphVars, route, settingsVars, agentVars, convertVars, docsVars>>

\* updateKnowledgeBase answers in handleEditConfirm: the dialog is closed
\* and the list loaded again.
KbUpdateSettles ==
  /\ view = "kb"
  /\ \E t \in tasks :
       /\ t.call = "updateKnowledgeBase"
       /\ \/ /\ t.id \in ServerIds
             /\ server' = (server \ {ServerKB(t.id)}) \cup {NamedKB(t.id, editForm)}
             /\ editModalVisible' = FALSE
             /\ Settle(t, {Task("getKnowledgeBases(my_created)", 0, "loadKnowledgeBases",
                                t.from, 0)})
             /\ out' = {MsgSuccess}
             /\ rejected' = ""
          \/ /\ Settle(t, {})
             /\ out' = {MsgError}
             /\ rejected' = t.call
             /\ UNCHANGED <<server, editModalVisible>>
  /\ UNCHANGED <<dialog, choice, selectedKB, kbDocumentGroupIds, chatMessages, privateKBs,
                 selectedKbId, createModalVisible, createForm, editForm>>
  /\ UNCHANGED <<actions, kbFrame>>

\* handleEditCancel.
KbHandleEditCancel ==
  /\ view = "kb"
  /\ AtRest /\ editModalVisible
  /\ editModalVisible' = FALSE
  /\ editForm' = <<>>
  /\ Start("handleEditCancel", {})
  /\ out' = {}
  /\ rejected' = ""
  /\ UNCHANGED <<dialog, choice, selectedKB, kbDocumentGroupIds, chatMessages, server,
                 privateKBs, selectedKbId, createModalVisible, createForm>>
  /\ UNCHANGED kbFrame

KbHandleDeleteUnconfirmed ==
  /\ view = "kb"
  /\ AtRest /\ ~FormOpen
  /\ ~selectedKB.isNull
  /\ Start("handleDelete",
           {Task("deleteKnowledgeBase", selectedKB.id, "deleteKB", "handleDelete", 0)})
  /\ out' = {}
  /\ rejected' = ""
  /\ UNCHANGED <<dialog, choice, selectedKB, kbDocumentGroupIds, chatMessages, server,
                 privateKBs, selectedKbId, formVars>>
  /\ UNCHANGED kbFrame

\* handleDelete shows the confirmation.
KbHandleDelete ==
  /\ view = "kb"
  /\ AtRest /\ ~FormOpen
  /\ ~selectedKB.isNull
  /\ dialog' = "deleteKB"
  /\ Start("handleDelete", {})
  /\ out' = {}
  /\ rejected' = ""
  /\ UNCHANGED <<choice, selectedKB, kbDocumentGroupIds, chatMessages, server, privateKBs,
                 selectedKbId, formVars>>
  /\ UNCHANGED kbFrame

\* OK in the dialog of handleDelete.
KbDeleteOk ==
  /\ view = "kb"
  /\ dialog = "deleteKB"
  /\ dialog' = "none"
  /\ choice' = "ok"
  /\ Start("onOk", {Task("deleteKnowledgeBase", selectedKB.id, "deleteKB", "onOk", 0)})
  /\ out' = {}
  /\ rejected' = ""
  /\ UNCHANGED <<selectedKB, kbDocumentGroupIds, chatMessages, server, privateKBs,
                 selectedKbId, formVars>>
  /\ UNCHANGED <<actions, kbFrame>>

\* handleDeleteDocument shows the confirmation for a document of the list.
KbHandleDeleteDocument ==
  /\ view = "kb"
  /\ AtRest /\ ~FormOpen
  /\ ~selectedKB.isNull /\ kbDocumentGroupIds # {}
  /\ dialog' = "deleteDoc"
  /\ Start("handleDeleteDocument", {})
  /\ out' = {}
  /\ rejected' = ""
  /\ UNCHANGED <<choice, selectedKB, kbDocumentGroupIds, chatMessages, server, privateKBs,
                 selectedKbId, formVars>>
  /\ UNCHANGED kbFrame

\* OK in the dialog of handleDeleteDocument.
KbDeleteDocumentOk ==
  /\ view = "kb"
  /\ dialog = "deleteDoc"
  /\ dialog' = "none"
  /\ choice' = "ok"
  /\ Start("onOk",
           IF selectedKB.isNull THEN {}
           ELSE {Task("deleteKnowledgeBaseDocument", selectedKB.id, "deleteDoc", "onOk", 0)})
  /\ out' = {}
  /\ rejected' = ""
  /\ UNCHANGED <<selectedKB, kbDocumentGroupIds, chatMessages, server, privateKBs,
                 selectedKbId, formVars>>
  /\ UNCHANGED <<actions, kbFrame>>

\* deleteKnowledgeBase answers in onOk: the list is loaded again, not
\* awaited, and the selection dropped.
KbDeleteSettles ==
  /\ view = "kb"
  /\ \E t \in tasks :
       /\ t.call = "deleteKnowledgeBase"
       /\ \/ /\ server' = {k \in server : k.id # t.id}
             /\ Settle(t, {Task("getKnowledgeBases(my_created)", 0, "loadKnowledgeBases",
                                "handleDelete", 0)})
             /\ selectedKB' = NoKB
             /\ selectedKbId' = 0
             /\ out' = {MsgSuccess}
             /\ rejected' = ""
          \/ /\ Settle(t, {})
             /\ out' = {MsgError}
             /\ rejected' = t.call
             /\ UNCHANGED <<server, selectedKB, selectedKbId>>
  /\ UNCHANGED <<dialog, choice, kbDocumentGroupIds, chatMessages, privateKBs, formVars>>
  /\ UNCHANGED <<actions, kbFrame>>

\* deleteKnowledgeBaseDocument answers in onOk: the documents are loaded
\* again.
KbDeleteDocumentSettles ==
  /\ view = "kb"
  /\ \E t \in tasks :
       /\ t.call = "deleteKnowledgeBaseDocument"
       /\ \/ /\ Settle(t, IF selectedKB.isNull THEN {}
                          ELSE {Task("getKnowledgeBaseDocuments(current)", selectedKB.id,
                                     "deleteDoc", "onOk", 0)})
             /\ out' = {MsgSuccess}
             /\ rejected' = ""
          \/ /\ Settle(t, {})
             /\ out' = {ConsoleError, MsgError}
             /\ rejected' = t.call
  /\ UNCHANGED <<dialog, choice, selectedKB, kbDocumentGroupIds, chatMessages, server,
                 privateKBs, selectedKbId, formVars>>
  /\ UNCHANGED <<actions, kbFrame>>

\* Cancel in a delete dialog of the page: there is no onCancel.
KbDeleteCancel ==
  /\ view = "kb"
  /\ dialog \in {"deleteKB", "deleteDoc"}
  /\ Dismiss
  /\ UNCHANGED <<selectedKB, kbDocumentGroupIds, chatMessages, server, privateKBs,
                 selectedKbId, formVars>>
  /\ UNCHANGED <<actions, kbFrame>>

\* ------------------------------------------------------ specification
Views == {"llm", "chat", "agent", "convert", "docs", "tab", "api", "graphiti", "cognee", "kb"}

Init ==
  /\ view \in Views
  /\ out = {}
  /\ issued = [s \in Streams |-> NoneIssued]
  /\ retrievalReq = NoReq
  /\ rpc = [s \in Streams |-> "unused"]
  /\ net = [s \in Streams |-> <<>>]
  /\ got = [s \in Streams |-> 0]
  /\ buffer = [s \in Streams |-> <<>>]
  /\ calls = [s \in Streams |-> <<>>]
  /\ pendingText = [s \in Streams |-> <<>>]
  /\ displayedLength = [s \in Streams |-> 0]
  /\ typewriterTimer = [s \in Streams |-> "null"]
  /\ userQuery = <<>>
  /\ retrievalScope = "all"
  /\ selectedDocumentGroupIds = {}
  /\ executing = FALSE
  /\ executionStatus = ""
  /\ executionResult = NullResult
  /\ retrievalResult = NoRetrieval
  /\ streamingContent = <<>>
  /\ isStreaming = FALSE
  /\ streamingAbortController = "null"
  /\ llmPc = "idle"
  /\ chatInput = <<>>
  /\ selectedKB \in (IF view = "docs" THEN {NoKB, KB(1)} ELSE {NoKB})
  /\ kbDocumentGroupIds = {}
  /\ chatLoading = FALSE
  /\ chatMessages = <<>>
  /\ assistantMessage = [s \in Streams |-> NoMessage]
  /\ chatPc = [s \in Streams |-> "none"]
  /\ queryText = <<>>
  /\ searchMode = "all"
  /\ selectedGroupIds = {}
  /\ tabPc = "idle"
  /\ tasks = (IF view = "kb" THEN {OnMounted} ELSE {})
  /\ sent = {t.call : t \in tasks}
  /\ log = {Key(t) : t \in tasks}
  /\ twice = {}
  /\ rejected = ""
  /\ dialog = "none"
  /\ choice = "none"
  /\ selectedDocumentId = NoDoc
  /\ selectedDocumentHasGraph = FALSE
  /\ deletingGraph = FALSE
  /\ skipConfirmation = FALSE
  /\ server \in (IF view = "kb" THEN {{}, {KB(1)}, {KB(1), KB(2)}} ELSE {{}})
  /\ route \in (IF view = "kb" THEN {0, 1} ELSE {0})
  /\ actions = 0
  /\ privateKBs = <<>>
  /\ selectedKbId = 0
  /\ createModalVisible = FALSE
  /\ editModalVisible = FALSE
  /\ createForm = <<>>
  /\ editForm = <<>>
  /\ retrievalSettings \in (IF view = "chat"
                            THEN {[DefaultSettings EXCEPT !.minScore = m] : m \in MinScores}
                            ELSE {DefaultSettings})
  /\ agentRetrievalSettings = DefaultSettings
  /\ agentRequest = NoAgentRequest
  /\ currentStage = "init"
  /\ currentStageText = <<>>
  /\ agentEvents = 0
  /\ retrievalResultV4 \in (IF view = "convert" THEN RetrievalResults ELSE {NoV4})
  /\ maxResults \in (IF view = "convert" THEN MaxResultsValues ELSE {20})
  /\ llmFormatResults = NotConverted
  /\ kbDocuments \in (IF view = "docs" THEN DocumentLists ELSE {<<>>})
  /\ searchKeyword = <<>>
  /\ documentsPagination = [current |-> 1, pageSize |-> PageSize, total |-> 0]
  /\ documents = <<>>
  /\ documentsLoading = FALSE
  /\ allCompletedDocumentIds = <<>>
  /\ page = 0
  /\ editedKbId = 0

Next ==
  \/ LlmEdit
  \/ LlmHandleExecute
  \/ LlmRetrievalSettles
  \/ LlmHandleClear
  \/ \E s \in Streams : LlmTypewriter(s)
  \/ ChatEdit
  \/ ChatHandleSendMessage
  \/ \E s \in Streams : ChatRetrievalSettles(s)
  \/ \E s \in Streams : ChatStartStream(s)
  \/ \E s \in Streams : ChatTypewriter(s)
  \/ AgentHandleRetrievalSettingsConfirm
  \/ AgentHandleSendMessage
  \/ AgentStartStream
  \/ \E data \in AgentData : AgentOnData(data)
  \/ AgentOnDone
  \/ AgentOnError
  \/ AgentTypewriter
  \/ Convert
  \/ DocsInput
  \/ DocsLoadDocuments
  \/ \E ok \in BOOLEAN : DocsFirstSettles(ok)
  \/ \E ok \in BOOLEAN : DocsPageSettles(ok)
  \/ TabEdit
  \/ TabHandleExecute
  \/ TabRetrievalSettles
  \/ TabHandleClear
  \/ \E s \in Streams : ApiCall(s)
  \/ \E s \in Streams : FetchRejects(s)
  \/ \E s \in Streams : FetchNotOk(s)
  \/ \E s \in Streams : FetchOk(s)
  \/ \E s \in Streams : ReadChunk(s)
  \/ \E s \in Streams : ReadEof(s)
  \/ \E s \in Streams : ReadRejects(s)
  \/ GraphitiHandleDocumentChange
  \/ GraphitiDocumentResultSettles
  \/ GraphitiEpisodeBodySettles
  \/ GraphitiHandleExecute
  \/ GraphitiBuildSettles
  \/ GraphitiSummarySettles
  \/ GraphitiGraphSettles
  \/ GraphitiRebuildOk
  \/ GraphitiRebuildDeleteSettles
  \/ GraphitiRebuildCancel
  \/ GraphitiHandleDeleteGraph
  \/ GraphitiDeleteCheckSettles
  \/ GraphitiDeleteOk
  \/ GraphitiDeleteSettles
  \/ GraphitiDeleteCancel
  \/ CogneeHandleDocumentChange
  \/ CogneeChunksSettles
  \/ CogneeMappingSettles
  \/ CogneeHandleExecute
  \/ CogneeBuildSettles
  \/ CogneeGraphSettles
  \/ CogneeRebuildOk
  \/ CogneeRebuildDeleteSettles
  \/ CogneeRebuildCancel
  \/ CogneeHandleDeleteGraph
  \/ CogneeDeleteOk
  \/ CogneeDeleteSettles
  \/ CogneeDeleteCancel
  \/ KbCreatedListSettles
  \/ KbJoinedListSettles
  \/ KbDetailSettles
  \/ KbDocumentsSettles
  \/ KbAllDocumentsSettles
  \/ KbHistorySettles
  \/ KbSelectKnowledgeBase
  \/ KbHandleCreateKB
  \/ KbHandleEdit
  \/ KbInput
  \/ KbHandleCreateConfirm
  \/ KbCreateSettles
  \/ KbCreateCancel
  \/ KbHandleEditConfirm
  \/ KbUpdateSettles
  \/ KbHandleEditCancel
  \/ KbHandleDelete
  \/ KbDeleteOk
  \/ KbHandleDeleteDocument
  \/ KbDeleteDocumentOk
  \/ KbDeleteSettles
  \/ KbDeleteDocumentSettles
  \/ KbDeleteCancel

Spec == Init /\ [][Next]_vars

\* ------------------------------------------------------------ properties
Last(q) == q[Len(q)]

\* The events that have arrived whole: the blocks of the part of the body
\* handed over so far that are followed by their blank line.
Arrived(s) ==
  LET parts == Split(SubSeq(net[s], 1, got[s])) IN SubSeq(parts, 1, Len(parts) - 1)

\* The content of the events among blocks up to the first that ends the
\* answer, in order.
RECURSIVE ContentUpToEnd(_)
ContentUpToEnd(blocks) ==
  IF blocks = <<>> THEN <<>>
  ELSE LET b == Head(blocks) IN
       IF Len(b) = 2 /\ b[1].k = "D" /\ b[2].k = "j"
       THEN IF b[2].ev.error # "" \/ b[2].ev.done THEN <<>>
            ELSE b[2].ev.content \o ContentUpToEnd(Tail(blocks))
       ELSE ContentUpToEnd(Tail(blocks))

\* Stream s is the only one its view has started.
Single(s) == \A t \in Streams \ {s} : rpc[t] = "unused"

\* This step invoked the callback cb of stream s last.
Invoked(s, cb) == calls'[s] # calls[s] /\ Last(calls'[s]).cb = cb

\* What a view shows for stream s once the answer is complete.
ShownWhole(s) ==
  LET text == ContentUpToEnd(Arrived(s)) IN
  CASE view = "llm" ->
         /\ streamingContent = text
         /\ ~executionResult.isNull => executionResult.generated_document = text
    [] view = "chat" ->
         /\ assistantMessage[s].streamingContent = text
         /\ assistantMessage[s].content = text
    [] OTHER -> TRUE

\* C1: in a view, the pending text of a stream is always the content of the
\* events that have arrived, in their order of arrival; and the step that
\* completes a single stream leaves the displayed text (streamingContent and
\* the final content / generated_document) equal to that concatenation,
\* however far the typewriter had got.
C1_ChunksInOrder ==
  /\ [](\A s \in Streams :
          view \in {"llm", "chat"} => pendingText[s] = ContentUpToEnd(Arrived(s)))
  /\ [][\A s \in Streams :
          (view \in {"llm", "chat"} /\ Single(s) /\ Invoked(s, "done")) => ShownWhole(s)'
       ]_vars

\* A chat answer completed while the typewriter was behind: all of both
\* chunks is shown.
C1_Witness ==
  /\ view = "chat"
  /\ Single(1)
  /\ calls[1] # <<>> /\ Last(calls[1]).cb = "done"
  /\ displayedLength[1] < Len(pendingText[1])
  /\ assistantMessage[1].content = T1 \o T2
  /\ assistantMessage[1].streamingContent = T1 \o T2

\* The failure text a view ends with, as far as it has one.
EndsAsFailureText(s) ==
  LET text == FailText(Last(calls[s]).msg) IN
  CASE view = "llm" ->
         /\ ~isStreaming
         /\ \/ streamingContent = text
            \/ ~executionResult.isNull /\ executionResult.generated_document = text
    [] view = "chat" ->
         /\ ~assistantMessage[s].isStreaming
         /\ assistantMessage[s].content = text
    [] OTHER -> TRUE

\* A callback that ends a stream is the last one invoked for it.
TerminalIsLast(s) ==
  /\ \A i \in 1..(Len(calls[s]) - 1) : calls[s][i].cb \notin {"error", "done"}
  /\ (calls[s] # <<>> /\ Last(calls[s]).cb \in {"error", "done"}) => Closed(s)

\* C4 as stated: a failed stream processes no further event, and in the chat
\* and in the LLM-generate tab the message stops streaming and its content
\* ends as failure text.
C4_FailureTextEverywhere ==
  /\ [](\A s \in Streams : TerminalIsLast(s))
  /\ [][\A s \in Streams :
          (view \in {"llm", "chat"} /\ Invoked(s, "error")) => EndsAsFailureText(s)'
       ]_vars

\* C4 (amended): a failed stream processes no further event; the chat message
\* stops streaming, its content becomes the failure text and its streamed
\* text is emptied; the LLM-generate tab stops streaming, drops its
\* execution result and shows an error toast, and the text streamed so far
\* stays as it was.
C4_FailureHandling ==
  /\ [](\A s \in Streams : TerminalIsLast(s))
  /\ [][\A s \in Streams :
          Invoked(s, "error") =>
            CASE view = "chat" ->
                   /\ ~assistantMessage'[s].isStreaming
                   /\ assistantMessage'[s].content = FailText(Last(calls'[s]).msg)
                   /\ assistantMessage'[s].streamingContent = <<>>
                   /\ MsgError \in out'
              [] view = "llm" ->
                   /\ ~isStreaming'
                   /\ executionResult' = NullResult
                   /\ streamingContent' = streamingContent
                   /\ MsgError \in out'
              [] OTHER -> TRUE
       ]_vars

\* The LLM-generate tab after a failed stream: the text typed out so far is
\* still there, and there is no result.
C4_Witness ==
  /\ view = "llm"
  /\ Single(1)
  /\ calls[1] # <<>> /\ Last(calls[1]).cb = "error"
  /\ ~isStreaming
  /\ streamingContent # <<>>
  /\ executionResult.isNull

\* C6: in the LLM-generate tab executing is true only while the retrieval is
\* awaited, and false from the step that starts the stream; the callback
\* that ends a stream writes the shared isStreaming, streamingContent and
\* executionResult whatever other stream is in flight.
C6_StreamsNotCoordinated ==
  /\ [](view = "llm" => (executing <=> llmPc = "retrieval"))
  /\ [][\A s \in Streams :
          view = "llm" =>
            /\ (rpc[s] = "unused" /\ rpc'[s] = "fetching") => ~executing'
            /\ Invoked(s, "done") =>
                 /\ ~isStreaming'
                 /\ streamingContent' = pendingText'[s]
                 /\ ~executionResult.isNull =>
                      executionResult'.generated_document = pendingText'[s]
            /\ Invoked(s, "error") => (~isStreaming' /\ executionResult' = NullResult)
       ]_vars

\* A second execution finished while the first stream is still delivering:
\* the shared refs hold the second answer and say nothing is streaming.
C6_Witness ==
  /\ view = "llm"
  /\ rpc[1] = "reading" /\ calls[1] # <<>> /\ got[1] < Len(net[1])
  /\ rpc[2] = "returned" /\ calls[2] # <<>> /\ Last(calls[2]).cb = "done"
  /\ ~isStreaming
  /\ streamingContent = pendingText[2]
  /\ pendingText[2] # pendingText[1]

\* What C7 says one event causes.
Reaction(e) ==
  IF e.error # "" THEN <<CallError(e.error)>>
  ELSE IF e.done THEN <<CallDone>>
  ELSE (IF e.statistics THEN <<CallStats>> ELSE <<>>)
       \o (IF e.content # <<>> THEN <<CallChunk(e.content)>> ELSE <<>>)

IsEvent(b) == Len(b) = 2 /\ b[1].k = "D" /\ b[2].k = "j"

RECURSIVE Reactions(_)
Reactions(blocks) ==
  IF blocks = <<>> THEN <<>>
  ELSE LET b == Head(blocks) IN
       IF ~IsEvent(b) THEN Reactions(Tail(blocks))
       ELSE IF b[2].ev.error # "" \/ b[2].ev.done THEN Reaction(b[2].ev)
       ELSE Reaction(b[2].ev) \o Reactions(Tail(blocks))

\* C7: the callbacks invoked for the events that have arrived are: onError
\* for an event with error, and nothing after it; else onDone for an event
\* with done, and nothing after it; else the statistics chunk and then the
\* content chunk; nothing for a block that does not start with `data: `.
C7_EventPrecedence ==
  \A s \in Streams : rpc[s] \in {"reading", "returned"} => calls[s] = Reactions(Arrived(s))

\* An event with statistics and content, then an event with error, done and
\* content: statistics, content, error.
C7_Witness ==
  /\ view = "api"
  /\ net[1] = BodyOf(<<DataBlock([error |-> "", done |-> FALSE, statistics |-> TRUE,
                                   content |-> T1]),
                       DataBlock([error |-> "boom", done |-> TRUE, statistics |-> TRUE,
                                   content |-> T2])>>, <<>>)
  /\ calls[1] = <<CallStats, CallChunk(T1), CallError("boom")>>
  /\ rpc[1] = "returned"

\* C8: a smart-retrieval request has a query that is not blank; from the
\* LLM-generate tab and the smart-retrieval tab in the restricted scope the
\* selection is not empty and is what group_ids carries; from the chat the
\* knowledge base has processed documents and they are what group_ids
\* carries; top_k, min_score and enable_refine are those of the view.
C8_RetrievalRequests ==
  retrievalReq.sent =>
    /\ Trim(retrievalReq.query) # <<>>
    /\ retrievalReq.from = "llm" =>
         /\ retrievalReq.query = userQuery
         /\ retrievalReq.top_k = LlmTopK /\ retrievalReq.min_score = LlmMinScore
         /\ retrievalReq.enable_refine
         /\ retrievalScope = "specified" =>
              /\ selectedDocumentGroupIds # {}
              /\ retrievalReq.group_ids = [present |-> TRUE, ids |-> selectedDocumentGroupIds]
    /\ retrievalReq.from = "tab" =>
         /\ retrievalReq.query = queryText
         /\ retrievalReq.top_k = TabTopK /\ retrievalReq.min_score = TabMinScore
         /\ retrievalReq.enable_refine
         /\ searchMode = "selected" =>
              /\ selectedGroupIds # {}
              /\ retrievalReq.group_ids = [present |-> TRUE, ids |-> selectedGroupIds]
    /\ retrievalReq.from = "chat" =>
         /\ retrievalReq.query = Trim(chatInput)
         /\ retrievalReq.top_k = ChatTopK
         /\ retrievalReq.min_score = OrDefault(retrievalSettings.minScore, ChatMinScore)
         /\ retrievalReq.enable_refine
         /\ ~selectedKB.isNull
         /\ kbDocumentGroupIds # {}
         /\ retrievalReq.group_ids = [present |-> TRUE, ids |-> kbDocumentGroupIds]

\* The smart-retrieval tab searches the selected documents.
C8_Witness ==
  /\ retrievalReq.sent
  /\ retrievalReq.from = "tab"
  /\ searchMode = "selected"
  /\ retrievalReq.group_ids = [present |-> TRUE, ids |-> {"d1"}]

\* Requests of one user action that were sent on behalf of two calls.
Duplicates ==
  {k \in log : \E l \in log : l # k /\ l.from = k.from /\ l.call = k.call /\ l.id = k.id}

DialogsOf(e) ==
  IF e = "deleteKnowledgeBase" THEN {"deleteKB"}
  ELSE IF e = "deleteKnowledgeBaseDocument" THEN {"deleteDoc"}
  ELSE {"rebuild", "deleteGraph"}

\* What the page shows.
Displayed ==
  <<executing, executionStatus, executionResult, selectedDocumentId,
    selectedDocumentHasGraph, deletingGraph, selectedKB, selectedKbId, privateKBs,
    kbDocumentGroupIds, chatMessages, createModalVisible, editModalVisible, createForm,
    editForm>>

\* C2: a delete endpoint is called only in the step in which the user
\* chooses OK in the confirmation dialog of that deletion; the step in which
\* the user cancels a dialog sends nothing and leaves what the page shows
\* unchanged.
C2_DeleteNeedsConfirmation ==
  [][/\ \A e \in DeleteEndpoints \cap sent' :
          dialog \in DialogsOf(e) /\ dialog' = "none" /\ choice' = "ok"
     /\ (dialog # "none" /\ dialog' = "none" /\ choice' = "cancel")
          => sent' = {} /\ tasks' = tasks /\ out' = {} /\ Displayed' = Displayed]_vars

C2_Witness ==
  /\ view = "kb"
  /\ choice = "ok"
  /\ sent = {"deleteKnowledgeBase"}
  /\ \E t \in tasks : t.call = "deleteKnowledgeBase" /\ t.id = selectedKB.id

Builds == {"step1GraphitiEpisode", "step2CogneeBuild"}
GraphDeletes == {"deleteGraphitiGraph", "deleteCogneeGraph"}

\* The step is a click on the execute button.
BuildClicked ==
  /\ dialog = "none"
  /\ \E t \in tasks' \ tasks : t.from \in {"handleExecuteGraphiti", "handleExecute"}

\* The step is the fulfilment of the delete that a confirmed rebuild sent.
RebuildDeleteFulfilled ==
  /\ rejected' = ""
  /\ \E d \in tasks \ tasks' : d.call \in GraphDeletes /\ d.at = "rebuild"

\* C3: in the Graphiti tab and the Cognee tab the delete of a rebuild is
\* sent only in the step in which the user chooses OK in the rebuild dialog,
\* and nothing else is sent with it; a build is sent only by a click on the
\* execute button or in the step in which that delete is fulfilled; the
\* step in which the delete is rejected, and the step in which the user
\* cancels, send nothing.
C3_RebuildNeedsConfirmation ==
  [][/\ (\E t \in tasks' \ tasks : t.call \in GraphDeletes /\ t.at = "rebuild")
          => dialog = "rebuild" /\ choice' = "ok" /\ sent' \subseteq GraphDeletes
     /\ (sent' \cap Builds # {}) => (BuildClicked \/ RebuildDeleteFulfilled)
     /\ (rejected' \in GraphDeletes) => sent' = {}
     /\ (dialog = "rebuild" /\ dialog' = "none" /\ choice' = "cancel") => sent' = {}]_vars

C3_Witness ==
  /\ view = "graphiti"
  /\ sent = {"step1GraphitiEpisode"}
  /\ out = {MsgSuccess}
  /\ \E t \in tasks : t.call = "step1GraphitiEpisode" /\ t.from = "onOk"

\* What the catch blocks around the awaited request t show and log.
Reported(t) ==
  IF t.call \in {"getKnowledgeBase", "getKnowledgeBaseDocuments(current)",
                 "getKnowledgeBaseDocuments(all)", "deleteKnowledgeBaseDocument"}
  THEN {ConsoleError, MsgError}
  ELSE IF t.call = "getChatHistory"
  THEN {ConsoleError}
  ELSE IF t.call = "getChunksCogneeMapping"
          \/ (t.call = "getGraphitiResult" /\ t.at = "handleDocumentChange")
  THEN {}
  ELSE IF t.call = "getChunks"
          \/ (t.call = "getGraphitiResult" /\ t.at = "executeGraphitiWithMode")
  THEN {MsgWarning}
  ELSE {MsgError}

C9_EmptyNameNotSent ==
  [][/\ "createKnowledgeBase" \in sent' => createForm # <<>>
     /\ "updateKnowledgeBase" \in sent' => editForm # <<>>
     /\ ((KbHandleCreateConfirm /\ createForm = <<>>)
           \/ (KbHandleEditConfirm /\ editForm = <<>>))
          => /\ sent' = {} /\ tasks' = tasks /\ out' = {}
             /\ Displayed' = Displayed]_vars

\* The create dialog was opened and its OK button pressed with the name
\* still empty.
C9_Witness ==
  /\ view = "kb"
  /\ actions = 2
  /\ createModalVisible /\ createForm = <<>>
  /\ tasks = {} /\ sent = {} /\ out = {}

\* The requests that loadSelectedKB and the watcher of selectedKB send.
Reloads ==
  {"getKnowledgeBase", "getKnowledgeBaseDocuments(current)",
   "getKnowledgeBaseDocuments(all)", "getChatHistory"}

AtMostOnce ==
  \A s \in Streams : issued[s].smartRetrieval <= 1 /\ issued[s].stream <= 1

\* C10 as stated: no request is sent twice for one user action.
C10_OneAttemptPerAction == twice = {} /\ Duplicates = {} /\ AtMostOnce

\* C10: a failed request is never sent again without a new user action: the
\* step that handles a rejection, a response that is not OK or an error
\* event sends no request, and no call sends its request twice. One user
\* action sends each request once, except that saving the edit dialog and
\* creating a knowledge base load the selected knowledge base on behalf of
\* two calls.
C10_NoRetry ==
  /\ [](/\ twice = {}
        /\ AtMostOnce
        /\ \A k \in Duplicates :
             k.from \in {"handleEditConfirm", "handleCreateConfirm"} /\ k.call \in Reloads)
  /\ [][/\ rejected' # "" => rejected' \notin sent' /\ issued' = issued /\ retrievalReq' = NoReq
        /\ \A s \in Streams :
             (rpc'[s] # rpc[s] /\ rpc'[s] \in {"failed", "returned"})
               => issued' = issued /\ retrievalReq' = NoReq]_vars

\* After the edit dialog was saved, one of the two loads of the selected
\* knowledge base was rejected, and nothing was sent again.
C10_Witness ==
  /\ view = "kb"
  /\ rejected = "getKnowledgeBase"
  /\ sent = {}
  /\ \E k \in Duplicates : k.from = "handleEditConfirm" /\ k.call = "getKnowledgeBase"

\* The callbacks of a body handed over in one piece: those of its terminated
\* blocks, and onDone at the end of the body unless an event ended the loop.
WholeCalls(body) ==
  LET parts == Split(body)
      res == ProcessLines(SubSeq(parts, 1, Len(parts) - 1))
  IN IF res.stopped THEN res.calls ELSE res.calls \o <<CallDone>>

\* The part of the body handed over so far that follows its last blank line.
Unterminated(s) == Last(Split(SubSeq(net[s], 1, got[s])))

\* C11: however the body is cut into reads, the callbacks invoked are those
\* of the part handed over so far taken in one piece, the buffer holds the
\* unterminated tail of that part, and a stream that has come to its end has
\* invoked the callbacks of the whole body taken in one piece; a block that
\* is not followed by a blank line causes no callback.
C11_ReadsDoNotMatter ==
  \A s \in Streams :
    /\ rpc[s] \in {"reading", "returned"} => calls[s] = ProcessLines(Arrived(s)).calls
    /\ rpc[s] = "reading" => buffer[s] = Unterminated(s)
    /\ rpc[s] \in {"returned", "ended"} => calls[s] = WholeCalls(net[s])

\* A read ended inside the second event, after its `data: `: the first chunk
\* has been delivered and the buffer keeps the beginning of the second.
C11_Witness ==
  /\ view = "api"
  /\ rpc[1] = "reading"
  /\ net[1] = BodyOf(<<DataBlock(EvContent(T1)), DataBlock(EvContent(T2))>>, <<>>)
  /\ buffer[1] = <<Pfx>>
  /\ calls[1] = <<CallChunk(T1)>>

Terminal(c) == c.cb \in {"done", "error"}

\* C12: a stream invokes at most one of onDone and onError, once, and
\* nothing after it; the stream is then closed, and a closed stream reads
\* nothing more and invokes nothing more.
C12_OneTerminalCallback ==
  /\ [](\A s \in Streams :
          /\ Cardinality({i \in DOMAIN calls[s] : Terminal(calls[s][i])}) <= 1
          /\ \A i \in DOMAIN calls[s] : Terminal(calls[s][i]) => i = Len(calls[s]) /\ Closed(s))
  /\ [][\A s \in Streams :
          Closed(s) => /\ rpc'[s] = rpc[s] /\ got'[s] = got[s]
                       /\ calls'[s] = calls[s] /\ issued'[s] = issued[s]]_vars

\* A done event and a content event came in the same read: onDone only.
C12_Witness ==
  /\ view = "api"
  /\ rpc[1] = "returned"
  /\ net[1] = BodyOf(<<DataBlock(EvDone), DataBlock(EvContent(T1))>>, <<>>)
  /\ got[1] = Len(net[1])
  /\ calls[1] = <<CallDone>>

\* The messages C13 allows for a response that is not OK.
BuiltFromResponse == {"detail", "serialised", "text", "status"}

\* C13 as stated: a response that is not OK causes one onError, whose error
\* carries the detail field, the serialised body, or the status text, and no
\* other callback.
C13_NotOkReportedFromResponse ==
  [][\A s \in Streams :
       (rpc[s] = "fetching" /\ rpc'[s] = "failed" /\ rejected' = "")
         => /\ calls[s] = <<>>
            /\ \E m \in BuiltFromResponse : calls'[s] = <<CallError(m)>>]_vars

\* The text a view shows for stream s while it is typed out, and whether the
\* view says it is streaming.
Typed(s) == IF view = "llm" THEN streamingContent ELSE assistantMessage[s].streamingContent
Streaming(s) == IF view = "llm" THEN isStreaming ELSE assistantMessage[s].isStreaming

\* Stream s has been started by a view, alone, and handleClear has not run
\* since.
OwnText(s) ==
  /\ view \in {"llm", "chat"}
  /\ rpc[s] # "unused"
  /\ Single(s)
  /\ view = "llm" => streamingAbortController = "controller"

Ended(s) == calls[s] # <<>> /\ Terminal(Last(calls[s]))

\* A step of the typewriter of stream s that reveals text.
Tick(s) ==
  /\ calls' = calls /\ rpc' = rpc /\ pendingText' = pendingText
  /\ displayedLength'[s] # displayedLength[s]

\* C14 as stated: in every state the text shown is the prefix of pendingText
\* of length displayedLength, a streaming message has a pending timer, and a
\* stream that has ended has none.
C14_TypewriterAtEveryStep ==
  \A s \in Streams :
    OwnText(s) =>
      /\ displayedLength[s] <= Len(pendingText[s])
      /\ Typed(s) = Substring0(pendingText[s], displayedLength[s])
      /\ Streaming(s) => typewriterTimer[s] = "pending"
      /\ Ended(s) => typewriterTimer[s] # "pending"

\* C14: displayedLength never exceeds the length of pendingText; for a
\* stream on its own the text shown is the prefix of pendingText of length
\* displayedLength until the stream ends (in the LLM-generate tab afterwards
\* too) and all of pendingText after onDone; a streaming message has a
\* pending timer; a stream that has ended has none, so none of its ticks
\* runs; a tick that reveals text reveals one to three characters and leaves
\* the prefix shown.
C14_Typewriter ==
  /\ [](\A s \in Streams :
          /\ view \in {"llm", "chat"} => displayedLength[s] <= Len(pendingText[s])
          /\ (OwnText(s) /\ (view = "llm" \/ ~Ended(s)))
               => Typed(s) = Substring0(pendingText[s], displayedLength[s])
          /\ (OwnText(s) /\ Ended(s) /\ Last(calls[s]).cb = "done")
               => Typed(s) = pendingText[s]
          /\ (OwnText(s) /\ Streaming(s)) => typewriterTimer[s] = "pending"
          /\ (view \in {"llm", "chat"} /\ Ended(s)) => typewriterTimer[s] # "pending")
  /\ [][\A s \in Streams :
          (view \in {"llm", "chat"} /\ Tick(s)) =>
            /\ typewriterTimer[s] = "pending"
            /\ displayedLength'[s] - displayedLength[s] \in 1..3
            /\ Typed(s)' = Substring0(pendingText[s], displayedLength'[s])]_vars

\* The typewriter of a chat answer at work: three of four characters shown.
C14_Witness ==
  /\ view = "chat"
  /\ OwnText(1)
  /\ assistantMessage[1].isStreaming
  /\ pendingText[1] = T1
  /\ displayedLength[1] = 3
  /\ assistantMessage[1].streamingContent = SubSeq(T1, 1, 3)
  /\ typewriterTimer[1] = "pending"

\* handleClear has run since the last stream was started, and no new
\* execution has been started since.
ClearedUnderway ==
  /\ view = "llm"
  /\ streamingAbortController = "null"
  /\ ~executing
  /\ \E s \in Streams : rpc[s] # "unused"

\* C15 as stated: once handleClear has run, the stream it found in flight
\* and its typewriter change nothing: until a new execution is started the
\* streamed text stays empty, nothing is streaming and there is no result.
C15_ClearCancelsStream ==
  ClearedUnderway => (streamingContent = <<>> /\ ~isStreaming /\ executionResult.isNull)

\* C16: in agent mode, a progress event that switches the message to the
\* generating or the optimizing stage from another stage empties the text
\* of the stage, the pending text and the displayed length, so that the
\* text shown afterwards holds chunks of the new stage only.
C16_StageSwitchResets ==
  [][(/\ view = "agent"
      /\ chatPc[1] = "started"
      /\ agentEvents' = agentEvents + 1
      /\ currentStage' \in {"generating", "optimizing"}
      /\ currentStage' # currentStage)
       => /\ currentStageText' = <<>>
          /\ pendingText'[1] = <<>>
          /\ displayedLength'[1] = 0]_vars

\* C18: the min_score sent to the backend is the configured one, in the
\* smart-retrieval request of conversation mode and in the generation
\* request of agent mode, for every value of the slider, 0 included.
C18_MinScoreAsConfigured ==
  /\ (retrievalReq.sent /\ retrievalReq.from = "chat")
       => retrievalReq.min_score = retrievalSettings.minScore
  /\ agentRequest.sent => agentRequest.min_score = agentRetrievalSettings.minScore

\* The items of a retrieval result, in the order chunks, Graphiti entities,
\* Cognee entities, each with the source it comes from.
Union(retrieval) ==
  LET tag(source, list) ==
        [i \in DOMAIN list.items |->
           [source |-> source, id |-> list.items[i].id, score |-> list.items[i].score]]
  IN tag("DocumentChunk", retrieval.chunk_results) \o tag("Graphiti", retrieval.graphiti)
       \o tag("Cognee", retrieval.cognee)

\* The place in the union of the item an entry stands for.
PlaceOf(entry, union) ==
  CHOOSE k \in DOMAIN union : union[k].source = entry.source /\ union[k].id = entry.id

\* C17: convertV4ResultsToLLMFormat returns min(maxResults, number of
\* items) entries, each standing for an item of its own of the result with the item's
\* score divided by 100, in non-increasing order of score, items of equal
\* score in the order chunks, Graphiti entities, Cognee entities; no item
\* left out has a higher score than an entry, and one of equal score comes
\* later in that order.
C17_ConvertTopN ==
  (view = "convert" /\ llmFormatResults.done) =>
    LET union == Union(retrievalResultV4)
        results == llmFormatResults.results
        place == [i \in DOMAIN results |-> PlaceOf(results[i], union)]
        left == DOMAIN union \ {place[i] : i \in DOMAIN results}
    IN /\ Len(results) = Min(maxResults, Len(union))
       /\ \A i \in DOMAIN results :
            /\ \E k \in DOMAIN union :
                 union[k].source = results[i].source /\ union[k].id = results[i].id
            /\ results[i].score = [num |-> union[place[i]].score, den |-> 100]
       /\ \A i, j \in DOMAIN results :
            i < j => /\ place[i] # place[j]
                     /\ results[i].score.num >= results[j].score.num
                     /\ results[i].score.num = results[j].score.num => place[i] < place[j]
       /\ \A k \in left : \A i \in DOMAIN results :
            /\ union[k].score <= union[place[i]].score
            /\ union[k].score = union[place[i]].score => place[i] < k

\* Three items of score 90 and two of score 60 in three lists, three
\* results asked for: the three of score 90, chunk first.
C17_Witness ==
  /\ view = "convert"
  /\ llmFormatResults.done
  /\ maxResults = 3
  /\ retrievalResultV4 = [chunk_results |-> ListOf(<<60, 90>>), graphiti |-> ListOf(<<90>>),
                          cognee |-> ListOf(<<90, 60>>)]
  /\ llmFormatResults.results = <<[source |-> "DocumentChunk", id |-> 2, score |-> Div100(90)],
                                  [source |-> "Graphiti", id |-> 1, score |-> Div100(90)],
                                  [source |-> "Cognee", id |-> 1, score |-> Div100(90)]>>

\* The document_ids of the processed documents of the knowledge base.
Processed == {kbDocuments[k].document_id : k \in {i \in DOMAIN kbDocuments :
                                                    HasDocumentId(kbDocuments[i])}}

\* C19: when loadDocuments ends, kbDocumentGroupIds holds the document_id
\* of every processed document of the knowledge base if no request was
\* rejected, whatever the search keyword, and is empty if one was.
C19_AllProcessedDocuments ==
  [][(view = "docs" /\ documentsLoading /\ ~documentsLoading')
       => kbDocumentGroupIds' = (IF rejected' = "" THEN Processed ELSE {})]_vars

\* The update of the knowledge base that was selected and shown when its
\* edit dialog was confirmed has succeeded, and every request the handler
\* caused has settled.
EditSettled ==
  /\ view = "kb"
  /\ tasks = {}
  /\ \E k \in log : k.from = "handleEditConfirm" /\ k.call = "getKnowledgeBases(my_created)"
  /\ \E u \in log : u.call = "updateKnowledgeBase" /\ u.id = editedKbId

\* C20: once the update of handleEditConfirm has succeeded and every
\* request the handler caused has settled, the knowledge base that was
\* edited is still the selected one: selectedKbId and selectedKB.id are
\* its id.
C20_EditedStaysSelected ==
  EditSettled => selectedKbId = editedKbId /\ selectedKB.id = editedKbId

\* C21: once handleCreateConfirm has created a knowledge base, its details
\* have been loaded and every request the handler caused has settled, the
\* new knowledge base is the selected one: selectedKbId and selectedKB.id
\* are its id, in whatever order the responses arrived.
C21_CreatedIsSelected ==
  \A k \in log :
    (/\ view = "kb"
     /\ tasks = {}
     /\ k.from = "handleCreateConfirm" /\ k.at = "handleCreateConfirm"
     /\ k.call = "getChatHistory")
      => selectedKbId = k.id /\ selectedKB.id = k.id

====
